---- MODULE Spec2Model ----
(***************************************************************************)
(* A model of the cppembedder segmentation engine (src/src/chunking.rs):   *)
(* the LSP transport (send_lsp_request / read_lsp_response), the session   *)
(* driven by Chunker::run and Chunker::process_file against a clangd       *)
(* child with its diagnostic log, the chunk extractor, and the writing of  *)
(* the chunks and their manifest (write_chunks).                           *)
(*                                                                         *)
(* Bytes are modelled as one-character strings; the two bytes of the       *)
(* UTF-8 encoding of U+00E9 are the tokens "xC3" and "xA9", the character  *)
(* itself is the token "U+E9".  JSON values (serde_json::Value) are        *)
(* tagged records; objects are key-sorted sequences of members (a Map).    *)
(* Numbers are integers: floats are outside the modelled value domain.     *)
(***************************************************************************)
EXTENDS Integers, Sequences, FiniteSets, TLC

VARIABLES
    \* ---- transport level (loopback byte stream) ----
    wire,       \* bytes written to the stream and not yet consumed
    written,    \* history: one record per frame written to the stream
    got,        \* history: one record per read_lsp_response call
    closed,     \* the writing end of the stream has been closed
    \* ---- chunk extractor ----
    e_content,  \* the text of the source file
    e_symbols,  \* the symbol forest of the file (Vec<Symbol>)
    e_chunks,   \* the result of extract_chunks, once it has run
    \* ---- session ----
    files,      \* the source files found, in discovery order
    pc,         \* where run() stands
    idx,        \* the number of the file being processed, from 1
    sent,       \* the messages written to the child's stdin, in order
    fromChild,  \* the frames in the child's stdout pipe, not yet read
    childEnd,   \* "open", or how the child's stdout ended: "eof", "ioerr"
    emitted,    \* the number of frames the child has written
    s_symbols,  \* the Vec<Symbol> read_document_symbols returned
    s_disk,     \* the output directory
    trace,      \* history: what the session did, in order
    s_log,      \* the entries of the LSP log file, in order
    l_mode,     \* the condition of the LSP log file
    c_out,      \* history: the frames the child has written, each with the
                \* number of the message it answers (0: none)
    c_taken,    \* the number of messages the child has read from its stdin
    c_want,     \* the frame the child is blocked writing (0: none)
    limits,     \* the capacities of the two pipes, if they are modelled
    \* ---- persistence ----
    p_source,   \* the source file write_chunks is called for, if any
    p_labels,   \* the chunks of that file
    p_disk,     \* the output directory
    p_first,    \* history: the first call, and the disk it left
    p_status,   \* "first" or "second" call ahead, "done", "error"
    \* ---- sanitize_name ----
    n_name,     \* the pieces of the name
    n_result,   \* the outcome of sanitize_name, once it has run
    \* ---- file names of two chunks ----
    q_in,       \* two positions in the chunks of a file and the two chunks
    q_out,      \* the file names of the two chunks, once they are built
    \* ---- the two per-file queries ----
    m_stream,   \* the frames the child has written to its stdout
    m_closed,   \* the child has closed its stdout
    m_result    \* the outcomes of the two queries on the stream, once run

fvars == <<wire, written, got, closed>>

evars == <<e_content, e_symbols, e_chunks>>

svars == <<files, pc, idx, sent, fromChild, childEnd, emitted, s_symbols, s_disk,
           trace, s_log, l_mode, c_out, c_taken, c_want, limits>>

pvars == <<p_source, p_labels, p_disk, p_first, p_status>>

nvars == <<n_name, n_result>>

qvars == <<q_in, q_out>>

mvars == <<m_stream, m_closed, m_result>>

vars == <<fvars, evars, svars, pvars, nvars, qvars, mvars>>

(***************************************************************************)
(* Characters and strings                                                  *)
(***************************************************************************)
Digits == <<"0", "1", "2", "3", "4", "5", "6", "7", "8", "9">>

IsDigit(c) == \E k \in DOMAIN Digits : Digits[k] = c

DigitVal(c) == (CHOOSE k \in DOMAIN Digits : Digits[k] = c) - 1

\* char::is_whitespace restricted to the characters of the model
IsWhitespace(c) == c \in {" ", "\t", "\n", "\r"}

\* format!("{}", n) for an unsigned integer
RECURSIVE FmtNat(_)
FmtNat(n) ==
    IF n < 10 THEN <<Digits[n + 1]>>
    ELSE FmtNat(n \div 10) \o <<Digits[(n % 10) + 1]>>

\* the UTF-8 bytes of one character
Utf8(c) == IF c = "U+E9" THEN <<"xC3", "xA9">> ELSE <<c>>

\* str::len(): the number of bytes of a string given as characters
RECURSIVE str_len(_)
str_len(s) == IF s = <<>> THEN 0 ELSE Len(Utf8(Head(s))) + str_len(Tail(s))

\* str::trim()
RECURSIVE trim_start(_)
trim_start(s) ==
    IF s # <<>> /\ IsWhitespace(Head(s)) THEN trim_start(Tail(s)) ELSE s

RECURSIVE trim_end(_)
trim_end(s) ==
    IF s # <<>> /\ IsWhitespace(s[Len(s)])
    THEN trim_end(SubSeq(s, 1, Len(s) - 1))
    ELSE s

\* a trim that strips line feeds only
RECURSIVE trim_newline_only(_)
trim_newline_only(s) ==
    IF s # <<>> /\ s[Len(s)] = "\n"
    THEN trim_newline_only(SubSeq(s, 1, Len(s) - 1))
    ELSE s

trim(s) == trim_end(trim_start(s))

starts_with(s, p) == Len(s) >= Len(p) /\ SubSeq(s, 1, Len(p)) = p

\* the index of the first occurrence of c in s at or after i, or Len(s)+1
RECURSIVE find_from(_, _, _)
find_from(s, c, i) ==
    IF i > Len(s) THEN Len(s) + 1
    ELSE IF s[i] = c THEN i
    ELSE find_from(s, c, i + 1)

\* s.split(':').nth(1): the text between the first and the second colon
\* (to the end when there is no second colon); None when s has no colon
split_colon_nth1(s) ==
    LET a == find_from(s, ":", 1)
        b == find_from(s, ":", a + 1)
    IN  IF a > Len(s) THEN [some |-> FALSE]
        ELSE [some |-> TRUE, v |-> SubSeq(s, a + 1, b - 1)]

\* value of a digit string, most significant digit first
RECURSIVE NatOfDigits(_)
NatOfDigits(s) ==
    IF s = <<>> THEN 0
    ELSE NatOfDigits(SubSeq(s, 1, Len(s) - 1)) * 10 + DigitVal(s[Len(s)])

\* str::parse::<usize>(): an optional '+', then one or more digits
\* (values stay far below usize::MAX in the model)
parse_usize(s) ==
    LET d == IF s # <<>> /\ Head(s) = "+" THEN Tail(s) ELSE s
    IN  IF d # <<>> /\ \A k \in DOMAIN d : IsDigit(d[k])
        THEN [ok |-> TRUE, v |-> NatOfDigits(d)]
        ELSE [ok |-> FALSE]

(***************************************************************************)
(* serde_json::Value                                                       *)
(***************************************************************************)
JNull == [t |-> "null"]
JBool(b) == [t |-> "bool", b |-> b]
JNum(n) == [t |-> "num", n |-> n]
JStr(s) == [t |-> "str", s |-> s]
JArr(a) == [t |-> "arr", a |-> a]
JObj(o) == [t |-> "obj", o |-> o]

\* the order of characters the model uses to sort object keys
CharOrder == <<"_", "a", "b", "c", "d", "e", "f", "g", "h", "i", "j", "k",
               "l", "m", "n", "o", "p", "q", "r", "s", "t", "u", "v", "w",
               "x", "y", "z">>

CharRank(c) ==
    IF \E k \in DOMAIN CharOrder : CharOrder[k] = c
    THEN CHOOSE k \in DOMAIN CharOrder : CharOrder[k] = c
    ELSE 0

RECURSIVE KeyLess(_, _)
KeyLess(a, b) ==
    IF b = <<>> THEN FALSE
    ELSE IF a = <<>> THEN TRUE
    ELSE IF CharRank(Head(a)) # CharRank(Head(b))
         THEN CharRank(Head(a)) < CharRank(Head(b))
    ELSE KeyLess(Tail(a), Tail(b))

\* Map::insert: replaces the value of an equal key, keeps the keys sorted
RECURSIVE map_insert(_, _, _)
map_insert(o, k, v) ==
    IF o = <<>> THEN <<[k |-> k, v |-> v]>>
    ELSE IF Head(o).k = k THEN <<[k |-> k, v |-> v]>> \o Tail(o)
    ELSE IF KeyLess(k, Head(o).k) THEN <<[k |-> k, v |-> v]>> \o o
    ELSE <<Head(o)>> \o map_insert(Tail(o), k, v)

\* Value::get(key): None for a missing key and for a value that is no object
json_get(val, key) ==
    IF val.t = "obj" /\ \E k \in DOMAIN val.o : val.o[k].k = key
    THEN [some |-> TRUE,
          v |-> val.o[CHOOSE k \in DOMAIN val.o : val.o[k].k = key].v]
    ELSE [some |-> FALSE]

\* Value::as_u64()
as_u64(val) ==
    IF val.t = "num" /\ val.n >= 0 THEN [some |-> TRUE, v |-> val.n]
    ELSE [some |-> FALSE]

(***************************************************************************)
(* serde_json::to_string (compact form)                                    *)
(***************************************************************************)
EscapeChar(c) ==
    CASE c = "\"" -> <<"\\", "\"">>
      [] c = "\\" -> <<"\\", "\\">>
      [] c = "\n" -> <<"\\", "n">>
      [] c = "\t" -> <<"\\", "t">>
      [] c = "\r" -> <<"\\", "r">>
      [] OTHER -> Utf8(c)

RECURSIVE EscapeStr(_)
EscapeStr(s) ==
    IF s = <<>> THEN <<>> ELSE EscapeChar(Head(s)) \o EscapeStr(Tail(s))

QuoteStr(s) == <<"\"">> \o EscapeStr(s) \o <<"\"">>

RECURSIVE to_string(_)
RECURSIVE ArrItems(_)
RECURSIVE ObjMembers(_)
to_string(val) ==
    CASE val.t = "null" -> <<"n", "u", "l", "l">>
      [] val.t = "bool" ->
            IF val.b THEN <<"t", "r", "u", "e">>
            ELSE <<"f", "a", "l", "s", "e">>
      [] val.t = "num" ->
            IF val.n < 0 THEN <<"-">> \o FmtNat(0 - val.n) ELSE FmtNat(val.n)
      [] val.t = "str" -> QuoteStr(val.s)
      [] val.t = "arr" -> <<"[">> \o ArrItems(val.a) \o <<"]">>
      [] val.t = "obj" -> <<"{">> \o ObjMembers(val.o) \o <<"}">>

ArrItems(a) ==
    IF a = <<>> THEN <<>>
    ELSE IF Len(a) = 1 THEN to_string(a[1])
    ELSE to_string(Head(a)) \o <<",">> \o ArrItems(Tail(a))

ObjMembers(o) ==
    IF o = <<>> THEN <<>>
    ELSE IF Len(o) = 1 THEN QuoteStr(o[1].k) \o <<":">> \o to_string(o[1].v)
    ELSE QuoteStr(Head(o).k) \o <<":">> \o to_string(Head(o).v) \o <<",">>
         \o ObjMembers(Tail(o))

(***************************************************************************)
(* serde_json::from_slice: a recursive-descent parser over the bytes.      *)
(* A parse result is [ok |-> FALSE] or [ok |-> TRUE, v |-> value,          *)
(* i |-> index of the first byte after the value].  \u escapes, fractions  *)
(* and exponents do not occur in the inputs of the model.                  *)
(***************************************************************************)
ParseFail == [ok |-> FALSE]

RECURSIVE SkipWs(_, _)
SkipWs(s, i) ==
    IF i <= Len(s) /\ IsWhitespace(s[i]) THEN SkipWs(s, i + 1) ELSE i

ExpectWord(s, i, w, val) ==
    IF i + Len(w) - 1 <= Len(s) /\ SubSeq(s, i, i + Len(w) - 1) = w
    THEN [ok |-> TRUE, v |-> val, i |-> i + Len(w)]
    ELSE ParseFail

Unescape(c) ==
    CASE c = "n" -> "\n"
      [] c = "t" -> "\t"
      [] c = "r" -> "\r"
      [] OTHER -> c

\* the characters of a string literal, i at the first byte after the quote
RECURSIVE ParseStrBody(_, _, _)
ParseStrBody(s, i, acc) ==
    IF i > Len(s) THEN ParseFail
    ELSE IF s[i] = "\"" THEN [ok |-> TRUE, v |-> acc, i |-> i + 1]
    ELSE IF s[i] = "\\" THEN
        IF i + 1 <= Len(s) /\ s[i + 1] \in {"\"", "\\", "/", "n", "t", "r"}
        THEN ParseStrBody(s, i + 2, Append(acc, Unescape(s[i + 1])))
        ELSE ParseFail
    ELSE IF s[i] = "xC3" THEN
        IF i + 1 <= Len(s) /\ s[i + 1] = "xA9"
        THEN ParseStrBody(s, i + 2, Append(acc, "U+E9"))
        ELSE ParseFail
    ELSE IF s[i] \in {"xA9", "\n", "\t", "\r"} THEN ParseFail
    ELSE ParseStrBody(s, i + 1, Append(acc, s[i]))

RECURSIVE DigitRunEnd(_, _)
DigitRunEnd(s, i) ==
    IF i <= Len(s) /\ IsDigit(s[i]) THEN DigitRunEnd(s, i + 1) ELSE i

ParseNumber(s, i) ==
    LET neg == s[i] = "-"
        a == IF neg THEN i + 1 ELSE i
        b == DigitRunEnd(s, a)
    IN  IF b = a THEN ParseFail
        ELSE IF s[a] = "0" /\ b > a + 1 THEN ParseFail
        ELSE [ok |-> TRUE,
              v |-> JNum(IF neg THEN 0 - NatOfDigits(SubSeq(s, a, b - 1))
                         ELSE NatOfDigits(SubSeq(s, a, b - 1))),
              i |-> b]

RECURSIVE ParseValue(_, _)
RECURSIVE ParseItems(_, _, _)
RECURSIVE ParseMembers(_, _, _)
ParseValue(s, i0) ==
    LET i == SkipWs(s, i0)
    IN  IF i > Len(s) THEN ParseFail
        ELSE CASE s[i] = "n" -> ExpectWord(s, i, <<"n", "u", "l", "l">>, JNull)
               [] s[i] = "t" ->
                    ExpectWord(s, i, <<"t", "r", "u", "e">>, JBool(TRUE))
               [] s[i] = "f" ->
                    ExpectWord(s, i, <<"f", "a", "l", "s", "e">>, JBool(FALSE))
               [] s[i] = "\"" ->
                    LET r == ParseStrBody(s, i + 1, <<>>)
                    IN  IF r.ok THEN [ok |-> TRUE, v |-> JStr(r.v), i |-> r.i]
                        ELSE ParseFail
               [] s[i] = "[" ->
                    LET j == SkipWs(s, i + 1)
                    IN  IF j <= Len(s) /\ s[j] = "]"
                        THEN [ok |-> TRUE, v |-> JArr(<<>>), i |-> j + 1]
                        ELSE ParseItems(s, j, <<>>)
               [] s[i] = "{" ->
                    LET j == SkipWs(s, i + 1)
                    IN  IF j <= Len(s) /\ s[j] = "}"
                        THEN [ok |-> TRUE, v |-> JObj(<<>>), i |-> j + 1]
                        ELSE ParseMembers(s, j, <<>>)
               [] s[i] = "-" \/ IsDigit(s[i]) -> ParseNumber(s, i)
               [] OTHER -> ParseFail

\* the items of a non-empty array, i at the first item
ParseItems(s, i, acc) ==
    LET r == ParseValue(s, i)
    IN  IF ~r.ok THEN ParseFail
        ELSE LET j == SkipWs(s, r.i)
             IN  IF j > Len(s) THEN ParseFail
                 ELSE IF s[j] = "]"
                      THEN [ok |-> TRUE, v |-> JArr(Append(acc, r.v)),
                            i |-> j + 1]
                 ELSE IF s[j] = ","
                      THEN ParseItems(s, j + 1, Append(acc, r.v))
                 ELSE ParseFail

\* the members of a non-empty object, i at the first key
ParseMembers(s, i0, acc) ==
    LET i == SkipWs(s, i0)
    IN  IF i > Len(s) \/ s[i] # "\"" THEN ParseFail
        ELSE LET k == ParseStrBody(s, i + 1, <<>>)
             IN  IF ~k.ok THEN ParseFail
                 ELSE LET c == SkipWs(s, k.i)
                      IN  IF c > Len(s) \/ s[c] # ":" THEN ParseFail
                          ELSE LET r == ParseValue(s, c + 1)
                               IN  IF ~r.ok THEN ParseFail
                                   ELSE LET j == SkipWs(s, r.i)
                                            m == map_insert(acc, k.v, r.v)
                                        IN  IF j > Len(s) THEN ParseFail
                                            ELSE IF s[j] = "}"
                                            THEN [ok |-> TRUE, v |-> JObj(m),
                                                  i |-> j + 1]
                                            ELSE IF s[j] = ","
                                            THEN ParseMembers(s, j + 1, m)
                                            ELSE ParseFail

\* serde_json::from_slice: one value, then only whitespace to the end
from_slice(s) ==
    LET r == ParseValue(s, 1)
    IN  IF r.ok /\ SkipWs(s, r.i) > Len(s) THEN [ok |-> TRUE, v |-> r.v]
        ELSE ParseFail

(***************************************************************************)
(* Transport: Chunker::send_lsp_request and Chunker::read_lsp_response      *)
(***************************************************************************)
ContentLengthColon ==
    <<"C", "o", "n", "t", "e", "n", "t", "-", "L", "e", "n", "g", "t", "h",
      ":">>

\* the number of characters of a UTF-8 byte string
RECURSIVE chars_count(_)
chars_count(b) ==
    IF b = <<>> THEN 0
    ELSE IF Head(b) = "xC3" /\ Len(b) >= 2 THEN 1 + chars_count(Tail(Tail(b)))
    ELSE 1 + chars_count(Tail(b))

\* send_lsp_request declaring the number of characters of the body
send_lsp_request_chars(request) ==
    LET request_str == to_string(request)
        content_length == chars_count(request_str)
    IN  ContentLengthColon \o <<" ">> \o FmtNat(content_length) \o <<"\n">>
        \o <<"\n">> \o request_str

\* the bytes send_lsp_request writes to the child's stdin:
\*   writeln!("Content-Length: {}", request_str.len()); writeln!();
\*   write!("{}", request_str)
send_lsp_request(request) ==
    LET request_str == to_string(request)
        content_length == Len(request_str)
    IN  ContentLengthColon \o <<" ">> \o FmtNat(content_length) \o <<"\n">>
        \o <<"\n">> \o request_str

\* whether bytes are well-formed UTF-8 (of the characters of the model)
RECURSIVE valid_utf8(_)
valid_utf8(b) ==
    IF b = <<>> THEN TRUE
    ELSE IF Head(b) = "xC3"
         THEN Len(b) >= 2 /\ b[2] = "xA9" /\ valid_utf8(Tail(Tail(b)))
    ELSE IF Head(b) \in {"xA9", "xFF"} THEN FALSE
    ELSE valid_utf8(Tail(b))

\* BufRead::read_line: the bytes up to and including the next '\n', or up to
\* the end of the stream; an error when they are not UTF-8
read_line(s) ==
    LET e == find_from(s, "\n", 1)
        n == IF e > Len(s) THEN Len(s) ELSE e
        line == SubSeq(s, 1, n)
    IN  IF valid_utf8(line)
        THEN [ok |-> TRUE, line |-> line, rest |-> SubSeq(s, n + 1, Len(s))]
        ELSE [ok |-> FALSE]

\* the header loop of read_lsp_response (lines 393-420)
RECURSIVE read_headers(_, _, _)
read_headers(s, content_length, headers) ==
    LET rl == read_line(s)
    IN  IF ~rl.ok THEN [ok |-> FALSE, err |-> "read_header"]
        ELSE
        LET line == trim(rl.line)
            hs == headers \o line \o <<"\n">>
        IN  IF line = <<>>
            THEN [ok |-> TRUE, content_length |-> content_length,
                  headers |-> hs, rest |-> rl.rest]
            ELSE IF starts_with(line, ContentLengthColon)
            THEN LET len_str == split_colon_nth1(line)
                 IN  IF ~len_str.some
                     THEN [ok |-> FALSE, err |-> "invalid_content_length"]
                     ELSE LET n == parse_usize(trim(len_str.v))
                          IN  IF ~n.ok
                              THEN [ok |-> FALSE, err |-> "parse_content_length"]
                              ELSE read_headers(rl.rest,
                                                [some |-> TRUE, v |-> n.v], hs)
            ELSE read_headers(rl.rest, content_length, hs)

\* read_lsp_response taking everything that is left in the stream for the
\* body
read_lsp_response_to_end(s) ==
    LET h == read_headers(s, [some |-> FALSE], <<>>)
    IN  IF ~h.ok THEN [ok |-> FALSE, err |-> h.err]
        ELSE IF ~h.content_length.some
        THEN [ok |-> FALSE, err |-> "no_content_length"]
        ELSE LET json_value == from_slice(h.rest)
             IN  IF ~json_value.ok
                 THEN [ok |-> FALSE, err |-> "parse_json"]
                 ELSE [ok |-> TRUE, value |-> json_value.v,
                       length |-> Len(h.rest), headers |-> h.headers,
                       body |-> h.rest, rest |-> <<>>]

\* Chunker::read_lsp_response on the bytes s that remain in the stream
\* (the end of s is the end of the stream)
read_lsp_response(s) ==
    LET h == read_headers(s, [some |-> FALSE], <<>>)
    IN  IF ~h.ok THEN [ok |-> FALSE, err |-> h.err]
        ELSE IF ~h.content_length.some
        THEN [ok |-> FALSE, err |-> "no_content_length"]
        ELSE LET length == h.content_length.v
             IN  IF Len(h.rest) < length
                 THEN [ok |-> FALSE, err |-> "read_body"]
                 ELSE LET buffer == SubSeq(h.rest, 1, length)
                          json_value == from_slice(buffer)
                      IN  IF ~json_value.ok
                          THEN [ok |-> FALSE, err |-> "parse_json"]
                          ELSE [ok |-> TRUE, value |-> json_value.v,
                                length |-> length, headers |-> h.headers,
                                body |-> buffer,
                                rest |-> SubSeq(h.rest, length + 1,
                                                Len(h.rest))]

(***************************************************************************)
(* The values and frames the transport is exercised with                   *)
(***************************************************************************)
K_id == <<"i", "d">>
K_result == <<"r", "e", "s", "u", "l", "t">>
K_method == <<"m", "e", "t", "h", "o", "d">>
K_error == <<"e", "r", "r", "o", "r">>
K_params == <<"p", "a", "r", "a", "m", "s">>

\* a Map built by inserting the <<key, value>> pairs in the order given
RECURSIVE MkMap(_)
MkMap(pairs) ==
    IF pairs = <<>> THEN <<>>
    ELSE map_insert(MkMap(SubSeq(pairs, 1, Len(pairs) - 1)),
                    pairs[Len(pairs)][1], pairs[Len(pairs)][2])

MkObj(pairs) == JObj(MkMap(pairs))

\* the number of frames written to the loopback stream
MaxFrames == 2

\* messages handed to send_lsp_request
SendValues ==
    { JNull,
      JNum(0),
      JBool(FALSE),
      JStr(<<"a", "\"", "\\", "\n", "U+E9", " ">>),
      JArr(<<>>),
      JArr(<<JNum(1), JNull, JStr(<<"x", "U+E9">>)>>),
      MkObj(<<>>),
      MkObj(<<<<K_result, JArr(<<>>)>>, <<K_id, JNum(2)>>>>),
      MkObj(<<<<K_method, JStr(<<"e", "x", "i", "t">>)>>,
              <<K_id, JNum(9999)>>,
              <<K_params, MkObj(<<<<K_id, JStr(<<"U+E9">>)>>>>)>>>>) }

\* bodies a peer may put on the stream: serialized values, and bytes that
\* are no JSON document
ValidBodies == { to_string(v) : v \in SendValues }

InvalidBodies == { <<>>, <<"n", "u", "l">>, <<"{", "}", "x">>,
                   <<"\"", "xA9", "\"">> }

EolBytes(eol) == IF eol = "crlf" THEN <<"\r", "\n">> ELSE <<"\n">>

RECURSIVE HeaderBytes(_, _)
HeaderBytes(hdrs, eol) ==
    IF hdrs = <<>> THEN <<>>
    ELSE Head(hdrs) \o EolBytes(eol) \o HeaderBytes(Tail(hdrs), eol)

\* a frame as a peer writes it: header lines, a blank line, the body
MkFrame(kind, eol, hdrs, body) ==
    [kind |-> kind, eol |-> eol, body |-> body,
     bytes |-> HeaderBytes(hdrs, eol) \o EolBytes(eol) \o body]

CLHeader(value) == ContentLengthColon \o <<" ">> \o value

ContentTypeHeader ==
    <<"C", "o", "n", "t", "e", "n", "t", "-", "T", "y", "p", "e", ":", " ",
      "x">>

LowerCaseCLHeader ==
    <<"c", "o", "n", "t", "e", "n", "t", "-", "l", "e", "n", "g", "t", "h",
      ":", " ", "2">>

EmptyObjBody == to_string(MkObj(<<>>))

Eols == {"lf", "crlf"}

\* Content-Length values that are no non-negative integer
BadLengths == { <<"a", "b", "c">>, <<"-", "1">>, <<>>, <<"2", ".", "0">>,
                <<"2", " ", "2">> }

\* ... and such values that hold a second colon
ColonLengths == { <<"2", ":", "9">>, <<"2", ":">> }

PlainFrames ==
    { MkFrame("plain", e, <<CLHeader(FmtNat(Len(b)))>>, b) :
        e \in Eols, b \in ValidBodies }

BadJsonFrames ==
    { MkFrame("badjson", e, <<CLHeader(FmtNat(Len(b)))>>, b) :
        e \in Eols, b \in InvalidBodies }

ExtraHeaderFrames ==
    { MkFrame("extra", e, h, EmptyObjBody) :
        e \in Eols,
        h \in { <<ContentTypeHeader, CLHeader(<<"2">>)>>,
                <<CLHeader(<<"2">>), ContentTypeHeader>>,
                <<LowerCaseCLHeader, CLHeader(<<"2">>)>> } }

NoLengthFrames ==
    { MkFrame("nocl", e, h, EmptyObjBody) :
        e \in Eols,
        h \in { <<>>, <<ContentTypeHeader>>, <<LowerCaseCLHeader>> } }

BadLengthFrames ==
    { MkFrame("badlen", e, <<CLHeader(v)>>, EmptyObjBody) :
        e \in Eols, v \in BadLengths }

ColonLengthFrames ==
    { MkFrame("colonlen", e, <<CLHeader(v)>>, EmptyObjBody) :
        e \in Eols, v \in ColonLengths }

ShortFrames ==
    { MkFrame("short", e, <<CLHeader(FmtNat(Len(b) + 1))>>, b) :
        e \in Eols, b \in {EmptyObjBody, <<>>} }

ChildFrames ==
    PlainFrames \cup BadJsonFrames \cup ExtraHeaderFrames
    \cup NoLengthFrames \cup BadLengthFrames \cup ColonLengthFrames
    \cup ShortFrames

(***************************************************************************)
(* The loopback stream: frames are written, the stream is closed, and      *)
(* read_lsp_response is called until it fails or the stream is at its end. *)
(***************************************************************************)
FInit ==
    /\ wire = <<>>
    /\ written = <<>>
    /\ got = <<>>
    /\ closed = FALSE

\* send_lsp_request(m) on the loopback stream
Send(m) ==
    /\ ~closed
    /\ Len(written) < MaxFrames
    /\ wire' = wire \o send_lsp_request(m)
    /\ written' = Append(written, [kind |-> "send", value |-> m, eol |-> "lf",
                                   body |-> to_string(m),
                                   size |-> Len(send_lsp_request(m))])
    /\ UNCHANGED <<got, closed>>

\* a peer writes one frame
ChildWrite(f) ==
    /\ ~closed
    /\ Len(written) < MaxFrames
    /\ wire' = wire \o f.bytes
    /\ written' = Append(written, [kind |-> f.kind, eol |-> f.eol,
                                   body |-> f.body, size |-> Len(f.bytes)])
    /\ UNCHANGED <<got, closed>>

Close ==
    /\ ~closed
    /\ closed' = TRUE
    /\ UNCHANGED <<wire, written, got>>

\* one call of read_lsp_response; the caller stops at the first error
Receive ==
    /\ closed
    /\ Len(got) <= Len(written)
    /\ (IF got = <<>> THEN TRUE ELSE got[Len(got)].ok)
    /\ LET r == read_lsp_response(wire)
       IN  IF r.ok
           THEN /\ got' = Append(got, [ok |-> TRUE, value |-> r.value,
                                       length |-> r.length,
                                       consumed |-> Len(wire) - Len(r.rest)])
                /\ wire' = r.rest
           ELSE /\ got' = Append(got, [ok |-> FALSE, err |-> r.err])
                /\ wire' = wire
    /\ UNCHANGED <<written, closed>>

(***************************************************************************)
(* Properties of the transport                                             *)
(***************************************************************************)
\* frames before the i-th are well formed, so the i-th read starts at the
\* first byte of the i-th frame
Aligned(i) ==
    /\ i \in DOMAIN written
    /\ \A j \in 1..(i - 1) : written[j].kind \in {"send", "plain", "extra"}

\* C7: framing round trip. Every message written by send_lsp_request and read
\* back by read_lsp_response on the same stream comes back structurally equal
\* to the value sent, and the Content-Length the reader parsed from the header
\* is the byte length of the serialized body.
C7_FramingRoundTrip ==
    \A i \in DOMAIN got :
        (Aligned(i) /\ written[i].kind = "send") =>
            /\ got[i].ok
            /\ got[i].value = written[i].value
            /\ got[i].length = Len(to_string(written[i].value))

\* C7 witness: two messages were sent and read back, the second one a string
\* with a multi-byte character and escaped characters
C7_Witness ==
    /\ Len(got) = 2
    /\ got[2].ok
    /\ written[1].kind = "send"
    /\ written[2].kind = "send"
    /\ written[2].value = JStr(<<"a", "\"", "\\", "\n", "U+E9", " ">>)

\* C8: header robustness. A well-formed frame is accepted whether its header
\* lines and blank line end in CR LF or in LF alone: the read succeeds and
\* consumes exactly the declared body bytes, and two frames carrying the same
\* body with different line ends parse to the same value with the same number
\* of body bytes.
C8_HeaderRobustness ==
    /\ \A i \in DOMAIN got :
           (Aligned(i) /\ written[i].kind = "plain") =>
               /\ got[i].ok
               /\ got[i].length = Len(written[i].body)
    /\ \A i, j \in DOMAIN got :
           ( /\ Aligned(i) /\ Aligned(j)
             /\ written[i].kind = "plain" /\ written[j].kind = "plain"
             /\ written[i].body = written[j].body
             /\ written[i].eol = "crlf" /\ written[j].eol = "lf" ) =>
               /\ got[i].ok /\ got[j].ok
               /\ got[i].value = got[j].value
               /\ got[i].length = got[j].length

\* C8 witness: the same body was read from a CR LF frame and from an LF frame
C8_Witness ==
    /\ Len(got) = 2
    /\ got[1].ok /\ got[2].ok
    /\ written[1].kind = "plain" /\ written[2].kind = "plain"
    /\ written[1].eol = "crlf" /\ written[2].eol = "lf"
    /\ written[1].body = written[2].body
    /\ Len(written[1].body) > 9

\* C9: read_lsp_response fails when the header block ends (blank line or end
\* of stream) without a Content-Length header, when the Content-Length value
\* is no non-negative integer, when fewer than Content-Length body bytes can
\* be read, and when the body is no valid JSON; header lines other than
\* Content-Length are skipped without error.
C9_ReceiveErrors ==
    \A i \in DOMAIN got :
        /\ (Aligned(i)
            /\ written[i].kind \in {"nocl", "badlen", "colonlen", "badjson"})
               => ~got[i].ok
        /\ (Aligned(i) /\ written[i].kind = "short" /\ i = Len(written))
               => ~got[i].ok
        /\ (Aligned(i - 1) /\ written[i - 1].kind \in {"send", "plain", "extra"}
            /\ i = Len(written) + 1)
               => ~got[i].ok
        /\ (written = <<>>) => ~got[i].ok
        /\ (Aligned(i) /\ written[i].kind = "extra") => got[i].ok

\* C9 without the Content-Length values that hold a second colon: every other
\* case of the claim is an error, and other header lines are skipped
C9_OtherCases ==
    \A i \in DOMAIN got :
        /\ (Aligned(i) /\ written[i].kind \in {"nocl", "badlen", "badjson"})
               => ~got[i].ok
        /\ (Aligned(i) /\ written[i].kind = "short" /\ i = Len(written))
               => ~got[i].ok
        /\ (Aligned(i - 1) /\ written[i - 1].kind \in {"send", "plain", "extra"}
            /\ i = Len(written) + 1)
               => ~got[i].ok
        /\ (written = <<>>) => ~got[i].ok
        /\ (Aligned(i) /\ written[i].kind = "extra") => got[i].ok

\* the kinds of the frames that are well formed
WellFormedKinds == {"send", "plain", "extra"}

\* the number of bytes of the frames written after the first n
RECURSIVE SizeAfter(_)
SizeAfter(n) ==
    IF n >= Len(written) THEN 0 ELSE written[n + 1].size + SizeAfter(n + 1)

\* C24: message boundaries are preserved. When the stream is the
\* concatenation of well-formed frames, the i-th receive returns the body of
\* the i-th frame, consumes exactly the bytes of that frame (header lines,
\* blank line and Content-Length body bytes), and leaves the stream at the
\* first byte of the next frame.
C24_MessageBoundaries ==
    (\A j \in DOMAIN written : written[j].kind \in WellFormedKinds) =>
        /\ \A i \in DOMAIN got \cap DOMAIN written :
               /\ got[i].ok
               /\ got[i].value = from_slice(written[i].body).v
               /\ got[i].length = Len(written[i].body)
               /\ got[i].consumed = written[i].size
        /\ Len(wire) = SizeAfter(Len(got))

\* C24 witness: two well-formed frames with different bodies, one of them
\* with CR LF line ends, have been written and read, and the stream is at
\* its end
C24_Witness ==
    /\ Len(written) = 2
    /\ Len(got) = 2
    /\ written[1].kind \in {"plain", "extra"}
    /\ written[2].kind \in {"plain", "extra"}
    /\ written[1].eol = "crlf"
    /\ written[1].body # written[2].body
    /\ got[1].ok
    /\ got[2].ok
    /\ got[1].value # got[2].value
    /\ wire = <<>>

(***************************************************************************)
(* Chunk extractor: Chunker::extract_chunks and its process_symbols        *)
(***************************************************************************)
SYMBOL_KIND_NAMESPACE == 3
SYMBOL_KIND_CLASS == 5
SYMBOL_KIND_METHOD == 6
SYMBOL_KIND_FUNCTION == 12

None == [some |-> FALSE]
Some(x) == [some |-> TRUE, v |-> x]

\* the match on symbol.kind with an arm for variables
chunk_kind_with_variable(kind) ==
    CASE kind = SYMBOL_KIND_FUNCTION -> Some("function")
      [] kind = SYMBOL_KIND_METHOD -> Some("method")
      [] kind = SYMBOL_KIND_CLASS -> Some("class")
      [] kind = SYMBOL_KIND_NAMESPACE -> Some("namespace")
      [] kind = 13 -> Some("variable")
      [] OTHER -> None

\* the match on symbol.kind (lines 130-136): None stands for `continue`
chunk_kind(kind) ==
    CASE kind = SYMBOL_KIND_FUNCTION -> Some("function")
      [] kind = SYMBOL_KIND_METHOD -> Some("method")
      [] kind = SYMBOL_KIND_CLASS -> Some("class")
      [] kind = SYMBOL_KIND_NAMESPACE -> Some("namespace")
      [] OTHER -> None

\* str::lines(): the text split at '\n', a '\r' before the '\n' dropped, no
\* empty last line after a final '\n'
RECURSIVE str_lines(_)
str_lines(text) ==
    IF text = <<>> THEN <<>>
    ELSE LET e == find_from(text, "\n", 1)
             raw == SubSeq(text, 1, e - 1)
             line == IF e <= Len(text) /\ raw # <<>> /\ raw[Len(raw)] = "\r"
                     THEN SubSeq(raw, 1, Len(raw) - 1)
                     ELSE raw
         IN  <<line>> \o str_lines(SubSeq(text, e + 1, Len(text)))

\* [&str]::join("\n")
RECURSIVE join_lines(_)
join_lines(ls) ==
    IF ls = <<>> THEN <<>>
    ELSE IF Len(ls) = 1 THEN ls[1]
    ELSE Head(ls) \o <<"\n">> \o join_lines(Tail(ls))

ColonColon == <<":", ":">>

\* the range test with start_line > end_line in place of >=
range_is_invalid_allow_equal(start_line, end_line, lines) ==
    start_line > end_line \/ end_line >= Len(lines)

\* the range test of process_symbols (line 142)
range_is_invalid(start_line, end_line, lines) ==
    start_line >= end_line \/ end_line >= Len(lines)

\* the slice lines[start_line..end_line], without the last line
chunk_content_exclusive(lines, start_line, end_line) ==
    join_lines(SubSeq(lines, start_line + 1, end_line))

\* lines[start_line..=end_line].join("\n") (line 147)
chunk_content(lines, start_line, end_line) ==
    join_lines(SubSeq(lines, start_line + 1, end_line + 1))

\* the chunk name without the parent's name
chunk_name_unqualified(parent, name) == name

\* the name of the chunk (lines 150-154)
chunk_name(parent, name) ==
    IF parent.some THEN parent.v \o ColonColon \o name ELSE name

\* process_symbols visiting a symbol's children before the symbol itself
RECURSIVE process_symbols_children_first(_, _, _, _)
process_symbols_children_first(symbols, lines, chunks, parent) ==
    IF symbols = <<>> THEN chunks
    ELSE
    LET symbol == Head(symbols)
        kind == chunk_kind(symbol.kind)
        start_line == symbol.range.start.line
        end_line == symbol.range.end.line
    IN  IF ~kind.some
        THEN process_symbols_children_first(Tail(symbols), lines, chunks,
                                            parent)
        ELSE IF start_line >= end_line \/ end_line >= Len(lines)
        THEN process_symbols_children_first(Tail(symbols), lines, chunks,
                                            parent)
        ELSE
        LET content == join_lines(SubSeq(lines, start_line + 1, end_line + 1))
            name == IF parent.some
                    THEN parent.v \o ColonColon \o symbol.name
                    ELSE symbol.name
            below == process_symbols_children_first(symbol.children, lines,
                                                    chunks, Some(name))
            pushed == Append(below,
                             [name |-> name, content |-> content,
                              start_line |-> start_line,
                              end_line |-> end_line,
                              kind |-> kind.v, parent |-> parent])
        IN  process_symbols_children_first(Tail(symbols), lines, pushed,
                                           parent)

\* process_symbols descending into the children of every symbol, whatever
\* its kind
RECURSIVE process_symbols_descend_all(_, _, _, _)
process_symbols_descend_all(symbols, lines, chunks, parent) ==
    IF symbols = <<>> THEN chunks
    ELSE
    LET symbol == Head(symbols)
        kind == chunk_kind(symbol.kind)
        start_line == symbol.range.start.line
        end_line == symbol.range.end.line
    IN  IF ~kind.some
        THEN process_symbols_descend_all(Tail(symbols), lines,
                 process_symbols_descend_all(symbol.children, lines, chunks,
                                             parent),
                 parent)
        ELSE IF start_line >= end_line \/ end_line >= Len(lines)
        THEN process_symbols_descend_all(Tail(symbols), lines, chunks, parent)
        ELSE
        LET content == join_lines(SubSeq(lines, start_line + 1, end_line + 1))
            name == IF parent.some
                    THEN parent.v \o ColonColon \o symbol.name
                    ELSE symbol.name
            pushed == Append(chunks,
                             [name |-> name, content |-> content,
                              start_line |-> start_line,
                              end_line |-> end_line,
                              kind |-> kind.v, parent |-> parent])
            below == process_symbols_descend_all(symbol.children, lines,
                                                 pushed, Some(name))
        IN  process_symbols_descend_all(Tail(symbols), lines, below, parent)

\* process_symbols (lines 123-168): the for loop over `symbols` is the
\* recursion on the tail; `chunks` is the accumulator passed by &mut
RECURSIVE process_symbols(_, _, _, _)
process_symbols(symbols, lines, chunks, parent) ==
    IF symbols = <<>> THEN chunks
    ELSE
    LET symbol == Head(symbols)
        kind == chunk_kind(symbol.kind)
        start_line == symbol.range.start.line
        end_line == symbol.range.end.line
    IN  IF ~kind.some
        THEN process_symbols(Tail(symbols), lines, chunks, parent)
        ELSE IF range_is_invalid(start_line, end_line, lines)
        THEN process_symbols(Tail(symbols), lines, chunks, parent)
        ELSE
        LET content == chunk_content(lines, start_line, end_line)
            name == chunk_name(parent, symbol.name)
            pushed == Append(chunks,
                             [name |-> name, content |-> content,
                              start_line |-> start_line,
                              end_line |-> end_line,
                              kind |-> kind.v, parent |-> parent])
            below == process_symbols(symbol.children, lines, pushed,
                                     Some(name))
        IN  process_symbols(Tail(symbols), lines, below, parent)

\* Chunker::extract_chunks
extract_chunks(file_content, symbols) ==
    process_symbols(symbols, str_lines(file_content), <<>>, None)

(***************************************************************************)
(* The extractor run on symbol forests built one symbol at a time          *)
(***************************************************************************)
\* the number of symbols of a forest
MaxSymbols == 4

Symbol(name, kind, start_line, end_line, children) ==
    [name |-> name, kind |-> kind,
     range |-> [start |-> [line |-> start_line, character |-> 0],
                end |-> [line |-> end_line, character |-> 0]],
     children |-> children]

\* name, kind code and line range of the symbols a forest is built from:
\* the four chunk kinds, a variable (kind 13) and an empty range; the ranges
\* that end at line 3 end past the three-line text
SymbolLabels ==
    { <<<<"N">>, 3, 0, 3>>,
      <<<<"C">>, 5, 1, 3>>,
      <<<<"m">>, 6, 1, 2>>,
      <<<<"f">>, 12, 0, 1>>,
      <<<<"v">>, 13, 0, 2>>,
      <<<<"e">>, 12, 2, 2>> }

\* source texts: four lines ending in LF, three lines ending in CR LF with
\* no line end after the last
Contents ==
    { <<"a", "\n", "b", "b", "\n", "\n", "d", "\n">>,
      <<"a", "\r", "\n", "b", "\r", "\n", "c">> }

RECURSIVE NodeCount(_)
NodeCount(forest) ==
    IF forest = <<>> THEN 0
    ELSE 1 + NodeCount(Head(forest).children) + NodeCount(Tail(forest))

\* the paths of a forest: a path is the sequence of child indices that
\* leads from the top level to a symbol
RECURSIVE Paths(_)
Paths(forest) ==
    UNION { {<<i>>} \cup { <<i>> \o q : q \in Paths(forest[i].children) } :
            i \in DOMAIN forest }

RECURSIVE NodeAt(_, _)
NodeAt(forest, p) ==
    IF Len(p) = 1 THEN forest[p[1]]
    ELSE NodeAt(forest[p[1]].children, Tail(p))

\* the forest with sym appended to the children of the symbol at path p
\* (to the top level for the empty path)
RECURSIVE InsertAt(_, _, _)
InsertAt(forest, p, sym) ==
    IF p = <<>> THEN Append(forest, sym)
    ELSE [forest EXCEPT ![p[1]].children = InsertAt(@, Tail(p), sym)]

EInit ==
    /\ e_content \in Contents
    /\ e_symbols = <<>>
    /\ e_chunks = [done |-> FALSE, chunks |-> <<>>]

\* the analysis process reports one more symbol
AddSymbol(p, l) ==
    /\ ~e_chunks.done
    /\ NodeCount(e_symbols) < MaxSymbols
    /\ e_symbols' = InsertAt(e_symbols, p, Symbol(l[1], l[2], l[3], l[4], <<>>))
    /\ UNCHANGED <<e_content, e_chunks>>

\* extract_chunks(file_path, file_content, symbols)
Extract ==
    /\ ~e_chunks.done
    /\ e_chunks' = [done |-> TRUE,
                    chunks |-> extract_chunks(e_content, e_symbols)]
    /\ UNCHANGED <<e_content, e_symbols>>

(***************************************************************************)
(* Properties of the extractor                                             *)
(***************************************************************************)
RecognizedKinds == {3, 5, 6, 12}

e_lines == str_lines(e_content)

ValidRange(sym) ==
    /\ sym.range.start.line < sym.range.end.line
    /\ sym.range.end.line < Len(e_lines)

\* every symbol on the path, the last one included, has a recognized kind
KindReachable(p) ==
    \A k \in 1..Len(p) :
        NodeAt(e_symbols, SubSeq(p, 1, k)).kind \in RecognizedKinds

\* ... and a valid line range
RangeReachable(p) ==
    \A k \in 1..Len(p) : ValidRange(NodeAt(e_symbols, SubSeq(p, 1, k)))

\* pre-order: a symbol before its descendants, siblings in the given order
RECURSIVE PathLess(_, _)
PathLess(p, q) ==
    IF p = <<>> THEN q # <<>>
    ELSE IF q = <<>> THEN FALSE
    ELSE IF p[1] # q[1] THEN p[1] < q[1]
    ELSE PathLess(Tail(p), Tail(q))

\* the names on the path joined with "::"
RECURSIVE QualifiedName(_, _)
QualifiedName(forest, p) ==
    IF Len(p) = 1 THEN forest[p[1]].name
    ELSE forest[p[1]].name \o ColonColon
         \o QualifiedName(forest[p[1]].children, Tail(p))

\* the chunks are the symbols at the paths of P, in pre-order
IsPreOrderOf(chunks, P) ==
    /\ Len(chunks) = Cardinality(P)
    /\ \A p \in P :
           LET i == Cardinality({ q \in P : PathLess(q, p) }) + 1
               sym == NodeAt(e_symbols, p)
           IN  /\ chunks[i].name = QualifiedName(e_symbols, p)
               /\ chunks[i].start_line = sym.range.start.line
               /\ chunks[i].end_line = sym.range.end.line

\* C10 as stated: the output is the pre-order traversal of exactly the
\* symbols reachable from the top level without passing through a symbol of
\* unrecognized kind.
C10_FlatteningOrder_Original ==
    e_chunks.done =>
        IsPreOrderOf(e_chunks.chunks,
                     { p \in Paths(e_symbols) : KindReachable(p) })

\* C10 amended: the output is the pre-order traversal (depth first, siblings
\* in the given order, never re-sorted) of exactly the symbols reachable from
\* the top level through symbols that all, the symbol itself included, have a
\* recognized kind and a valid line range; a symbol of unrecognized kind
\* yields no chunk and neither does any of its descendants.
C10_FlatteningOrder ==
    e_chunks.done =>
        IsPreOrderOf(e_chunks.chunks,
                     { p \in Paths(e_symbols) :
                         KindReachable(p) /\ RangeReachable(p) })

\* C10 witness: the extractor ran on a forest in which a symbol of
\* unrecognized kind has a child of recognized kind and valid range, and a
\* later top-level symbol and its child were both emitted
C10_Witness ==
    /\ e_chunks.done
    /\ Len(e_chunks.chunks) = 2
    /\ Len(e_symbols) = 2
    /\ e_symbols[1].kind \notin RecognizedKinds
    /\ Len(e_symbols[1].children) = 1
    /\ e_symbols[1].children[1].kind \in RecognizedKinds
    /\ ValidRange(e_symbols[1].children[1])
    /\ Len(e_symbols[2].children) = 1

\* the forest without the symbol at path p and the symbols below it
RECURSIVE RemoveAt(_, _)
RemoveAt(forest, p) ==
    IF Len(p) = 1
    THEN SubSeq(forest, 1, p[1] - 1) \o SubSeq(forest, p[1] + 1, Len(forest))
    ELSE [forest EXCEPT ![p[1]].children = RemoveAt(@, Tail(p))]

\* the paths of the symbols the extractor emits, and the place of the chunk
\* of the symbol at path p in the output
EmittedPaths ==
    { p \in Paths(e_symbols) : KindReachable(p) /\ RangeReachable(p) }

ChunkIndex(p) == Cardinality({ q \in EmittedPaths : PathLess(q, p) }) + 1

\* the lines of the two source texts, written out
ExpectedLines ==
    IF e_content = <<"a", "\n", "b", "b", "\n", "\n", "d", "\n">>
    THEN << <<"a">>, <<"b", "b">>, <<>>, <<"d">> >>
    ELSE << <<"a">>, <<"b">>, <<"c">> >>

\* C11: range validation. Extraction always returns a result; every chunk
\* has start_line < end_line and end_line < number of lines of the file; and
\* a symbol of recognized kind whose range fails that test leaves no trace:
\* the result is the one obtained without the symbol and everything below
\* it, so it gives no chunk, adds nothing to the length and its children are
\* not visited.
C11_RangeValidation ==
    e_chunks.done =>
        /\ \A i \in DOMAIN e_chunks.chunks :
               /\ e_chunks.chunks[i].start_line < e_chunks.chunks[i].end_line
               /\ e_chunks.chunks[i].end_line < Len(ExpectedLines)
        /\ \A p \in Paths(e_symbols) :
               LET sym == NodeAt(e_symbols, p)
               IN  (/\ sym.kind \in RecognizedKinds
                    /\ \/ sym.range.start.line >= sym.range.end.line
                       \/ sym.range.end.line >= Len(ExpectedLines))
                   => e_chunks.chunks
                          = extract_chunks(e_content, RemoveAt(e_symbols, p))

\* C11 witness: a class whose range ends past the three-line file has a
\* method with a valid range, next to a function with an empty range:
\* nothing is emitted
C11_Witness ==
    /\ e_chunks.done
    /\ Len(ExpectedLines) = 3
    /\ Len(e_symbols) = 2
    /\ e_symbols[1].kind = 5
    /\ e_symbols[1].range.end.line = 3
    /\ Len(e_symbols[1].children) = 1
    /\ e_symbols[1].children[1].kind = 6
    /\ e_symbols[1].children[1].range.end.line = 2
    /\ e_symbols[2].range.start.line = e_symbols[2].range.end.line
    /\ e_chunks.chunks = <<>>

\* C12: name qualification. The name of a chunk is the names of the symbols
\* on its path, outermost first, joined with "::"; its parent is the name of
\* the chunk of the symbol that encloses it, and a top-level chunk has the
\* symbol's own name and no parent.
C12_NameQualification ==
    e_chunks.done =>
        \A p \in EmittedPaths :
            LET chunk == e_chunks.chunks[ChunkIndex(p)]
            IN  /\ chunk.name = QualifiedName(e_symbols, p)
                /\ Len(p) = 1 =>
                       /\ chunk.name = NodeAt(e_symbols, p).name
                       /\ ~chunk.parent.some
                /\ Len(p) > 1 =>
                       /\ chunk.parent.some
                       /\ chunk.parent.v
                              = QualifiedName(e_symbols,
                                              SubSeq(p, 1, Len(p) - 1))
                       /\ chunk.parent.v
                              = e_chunks.chunks[
                                    ChunkIndex(SubSeq(p, 1, Len(p) - 1))].name

\* C12 witness: method m in class C in namespace N
C12_Witness ==
    /\ e_chunks.done
    /\ Len(e_chunks.chunks) = 3
    /\ e_chunks.chunks[1].name = <<"N">>
    /\ ~e_chunks.chunks[1].parent.some
    /\ e_chunks.chunks[3].name = <<"N", ":", ":", "C", ":", ":", "m">>
    /\ e_chunks.chunks[3].parent.some
    /\ e_chunks.chunks[3].parent.v = <<"N", ":", ":", "C">>

\* C13: start_line and end_line of a chunk are those of the range of its
\* symbol, and the content is the lines start_line to end_line of the file,
\* both included, joined with "\n": end_line - start_line + 1 lines.
C13_LinesAndContent ==
    e_chunks.done =>
        \A p \in EmittedPaths :
            LET chunk == e_chunks.chunks[ChunkIndex(p)]
                sym == NodeAt(e_symbols, p)
                first == sym.range.start.line
                last == sym.range.end.line
            IN  /\ chunk.start_line = first
                /\ chunk.end_line = last
                /\ chunk.content
                       = join_lines([k \in 1..(last - first + 1)
                                        |-> ExpectedLines[first + k]])
                /\ Cardinality({ k \in DOMAIN chunk.content :
                                   chunk.content[k] = "\n" })
                       = last - first

\* C13 witness: a namespace over all four lines of the LF text, the third of
\* them empty, and a class over the last three lines of it
C13_Witness ==
    /\ e_chunks.done
    /\ Len(e_chunks.chunks) = 2
    /\ e_chunks.chunks[1].content = <<"a", "\n", "b", "b", "\n", "\n", "d">>
    /\ e_chunks.chunks[2].content = <<"b", "b", "\n", "\n", "d">>
    /\ e_chunks.chunks[2].start_line = 1
    /\ e_chunks.chunks[2].end_line = 3

\* the kind name of a kind code, written out
ExpectedKind(code) ==
    CASE code = 12 -> "function"
      [] code = 6 -> "method"
      [] code = 5 -> "class"
      [] code = 3 -> "namespace"
      [] OTHER -> "none"

\* C27: kind mapping. The kind of a chunk is given by the kind code of its
\* symbol alone: 12 function, 6 method, 5 class, 3 namespace; every chunk
\* has one of these four kinds, and a symbol with another kind code gives no
\* chunk: the result is the one obtained without it.
C27_KindMapping ==
    e_chunks.done =>
        /\ \A i \in DOMAIN e_chunks.chunks :
               e_chunks.chunks[i].kind
                   \in {"function", "method", "class", "namespace"}
        /\ \A p \in EmittedPaths :
               e_chunks.chunks[ChunkIndex(p)].kind
                   = ExpectedKind(NodeAt(e_symbols, p).kind)
        /\ \A p \in Paths(e_symbols) :
               NodeAt(e_symbols, p).kind \notin {3, 5, 6, 12}
               => e_chunks.chunks
                      = extract_chunks(e_content, RemoveAt(e_symbols, p))

\* C27 witness: a class with a method, and a variable with a function below
\* it: a class chunk and a method chunk are emitted
C27_Witness ==
    /\ e_chunks.done
    /\ Len(e_symbols) = 2
    /\ e_symbols[1].kind = 5
    /\ Len(e_symbols[1].children) = 1
    /\ e_symbols[1].children[1].kind = 6
    /\ e_symbols[2].kind = 13
    /\ Len(e_symbols[2].children) = 1
    /\ e_symbols[2].children[1].kind = 12
    /\ Len(e_chunks.chunks) = 2
    /\ e_chunks.chunks[1].kind = "class"
    /\ e_chunks.chunks[2].kind = "method"

(***************************************************************************)
(* Chunk persistence: sanitize_name and Chunker::write_chunks.  File names *)
(* and file contents are bytes.  write_chunks is the sequence of file      *)
(* system operations it performs, in order; the disk is the set of         *)
(* directories and the set of files [dir, name, content].                  *)
(***************************************************************************)
\* the bytes of a string given as characters; the string is taken in
\* halves to keep the evaluation shallow on names of 200 bytes and more
RECURSIVE to_bytes(_)
to_bytes(s) ==
    IF s = <<>> THEN <<>>
    ELSE IF Len(s) = 1 THEN Utf8(s[1])
    ELSE to_bytes(SubSeq(s, 1, Len(s) \div 2))
         \o to_bytes(SubSeq(s, Len(s) \div 2 + 1, Len(s)))

\* the scan of str::replace over the positions a..b of s, entered with
\* `skip` bytes of a match still to pass over: at a position where `from`
\* matches, `to` is put out and the scan goes on behind the match.  The
\* range is taken in halves; the second half starts in the state the first
\* ends in.
RECURSIVE replace_scan(_, _, _, _, _, _)
replace_scan(s, from, to, a, b, skip) ==
    IF a > b THEN [out |-> <<>>, skip |-> skip]
    ELSE IF a = b
    THEN IF skip > 0 THEN [out |-> <<>>, skip |-> skip - 1]
         ELSE IF a + Len(from) - 1 <= Len(s)
                 /\ SubSeq(s, a, a + Len(from) - 1) = from
         THEN [out |-> to, skip |-> Len(from) - 1]
         ELSE [out |-> <<s[a]>>, skip |-> 0]
    ELSE CHOOSE r \in
             UNION { { [out |-> left.out \o right.out, skip |-> right.skip] :
                         right \in {replace_scan(s, from, to,
                                                 (a + b) \div 2 + 1, b,
                                                 left.skip)} } :
                     left \in {replace_scan(s, from, to, a, (a + b) \div 2,
                                            skip)} } : TRUE

\* str::replace: every non-overlapping match, left to right
str_replace(s, from, to) == replace_scan(s, from, to, 1, Len(s), 0).out

\* the length sanitize_name truncates to (line 63)
SanitizeMaxLen == 200

\* String::truncate(new_len): a no-op when the string is not longer; panics
\* when new_len is not on a character boundary
truncate(b, new_len) ==
    IF Len(b) <= new_len THEN [panic |-> FALSE, v |-> b]
    ELSE IF b[new_len + 1] = "xA9" THEN [panic |-> TRUE, v |-> <<>>]
    ELSE [panic |-> FALSE, v |-> SubSeq(b, 1, new_len)]

\* sanitize_name (lines 57-65), on the bytes of the name
sanitize_name(s) ==
    LET r == str_replace(
                 str_replace(
                     str_replace(
                         str_replace(s, <<":", ":">>, <<"_", "d", "o", "u", "b", "l", "e", "c", "o", "l", "o", "n", "_">>),
                         <<"<">>, <<"_", "l", "e", "s", "s", "_">>),
                     <<">">>, <<"_", "g", "r", "e", "a", "t", "e", "r", "_">>),
                 <<"/">>, <<"_", "s", "l", "a", "s", "h", "_">>)
    IN  truncate(r, SanitizeMaxLen)

\* format!("{:03}", n)
FmtPad3(n) ==
    IF n < 10 THEN <<"0", "0">> \o FmtNat(n)
    ELSE IF n < 100 THEN <<"0">> \o FmtNat(n)
    ELSE FmtNat(n)

KindBytes(kind) ==
    CASE kind = "function" -> <<"f", "u", "n", "c", "t", "i", "o", "n">>
      [] kind = "method" -> <<"m", "e", "t", "h", "o", "d">>
      [] kind = "class" -> <<"c", "l", "a", "s", "s">>
      [] kind = "namespace" -> <<"n", "a", "m", "e", "s", "p", "a", "c", "e">>

\* the index of the last occurrence of c in s, or 0
RECURSIVE rfind(_, _)
rfind(s, c) ==
    IF s = <<>> THEN 0
    ELSE IF s[Len(s)] = c THEN Len(s)
    ELSE rfind(SubSeq(s, 1, Len(s) - 1), c)

\* Path::file_name: the last component of the path
file_name(path) == SubSeq(path, rfind(path, "/") + 1, Len(path))

\* Path::file_stem: the file name up to its last '.', the whole file name
\* when it has no '.' or only a leading one
file_stem(path) ==
    LET n == file_name(path)
        d == rfind(n, ".")
    IN  IF d <= 1 THEN n ELSE SubSeq(n, 1, d - 1)

\* the file name without the sequence number
chunk_filename_no_seq(i, chunk) ==
    LET sanitized_name == sanitize_name(to_bytes(chunk.name))
    IN  [panic |-> sanitized_name.panic,
         v |-> sanitized_name.v \o <<"_">>
               \o KindBytes(chunk.kind) \o <<"_">>
               \o FmtNat(chunk.start_line + 1) \o <<".", "c", "p", "p">>]

\* the name of the file of the i-th chunk (lines 206-213), i counted from 0
chunk_filename(i, chunk) ==
    LET sanitized_name == sanitize_name(to_bytes(chunk.name))
    IN  [panic |-> sanitized_name.panic,
         v |-> FmtPad3(i + 1) \o <<"_">> \o sanitized_name.v \o <<"_">>
               \o KindBytes(chunk.kind) \o <<"_">>
               \o FmtNat(chunk.start_line + 1) \o <<".", "c", "p", "p">>]

IndexName == <<"_", "i", "n", "d", "e", "x", ".", "t", "x", "t">>

\* the index lines of one chunk without the line of the parent
index_record_no_parent(filename, chunk) ==
    <<"C", "h", "u", "n", "k", ":", " ">> \o filename \o <<"\n">>
    \o <<" ", " ", "N", "a", "m", "e", ":", " ">> \o to_bytes(chunk.name) \o <<"\n">>
    \o <<" ", " ", "K", "i", "n", "d", ":", " ">> \o KindBytes(chunk.kind) \o <<"\n">>
    \o <<" ", " ", "L", "i", "n", "e", "s", ":", " ">> \o FmtNat(chunk.start_line + 1) \o <<"-">>
    \o FmtNat(chunk.end_line + 1) \o <<"\n">>
    \o <<"-", "-", "-", "\n">>

\* the lines write_chunks adds to the index for one chunk (lines 225-242)
index_record(filename, chunk) ==
    <<"C", "h", "u", "n", "k", ":", " ">> \o filename \o <<"\n">>
    \o <<" ", " ", "N", "a", "m", "e", ":", " ">> \o to_bytes(chunk.name) \o <<"\n">>
    \o <<" ", " ", "K", "i", "n", "d", ":", " ">> \o KindBytes(chunk.kind) \o <<"\n">>
    \o <<" ", " ", "L", "i", "n", "e", "s", ":", " ">> \o FmtNat(chunk.start_line + 1) \o <<"-">>
    \o FmtNat(chunk.end_line + 1) \o <<"\n">>
    \o (IF chunk.parent.some
        THEN <<" ", " ", "P", "a", "r", "e", "n", "t", ":", " ">> \o to_bytes(chunk.parent.v) \o <<"\n">>
        ELSE <<>>)
    \o <<"-", "-", "-", "\n">>

\* the operations of the loop over the chunks from the i-th on (lines
\* 205-243); a panic in sanitize_name ends them
RECURSIVE chunk_ops(_, _, _)
chunk_ops(dir, chunks, i) ==
    IF i >= Len(chunks) THEN <<>>
    ELSE LET chunk == chunks[i + 1]
             fname == chunk_filename(i, chunk)
         IN  IF fname.panic THEN <<[op |-> "panic"]>>
             ELSE << [op |-> "write", dir |-> dir, name |-> fname.v,
                      content |-> to_bytes(chunk.content)],
                     [op |-> "append", dir |-> dir, name |-> IndexName,
                      content |-> index_record(fname.v, chunk)] >>
                  \o chunk_ops(dir, chunks, i + 1)

\* the file system operations of write_chunks(source_file, chunks), in order
write_chunks_ops(source_file, chunks) ==
    LET dir == file_stem(source_file)
    IN  << [op |-> "create_dir_all", dir |-> dir],
           [op |-> "create", dir |-> dir, name |-> IndexName],
           [op |-> "append", dir |-> dir, name |-> IndexName,
            content |-> <<"S", "o", "u", "r", "c", "e", " ", "f", "i", "l", "e", ":", " ">> \o source_file \o <<"\n">>],
           [op |-> "append", dir |-> dir, name |-> IndexName,
            content |-> <<"N", "u", "m", "b", "e", "r", " ", "o", "f", " ", "c", "h", "u", "n", "k", "s", ":", " ">> \o FmtNat(Len(chunks))
                        \o <<"\n">>],
           [op |-> "append", dir |-> dir, name |-> IndexName,
            content |-> <<"-", "-", "-", "\n">>] >>
        \o chunk_ops(dir, chunks, 0)

EmptyDisk == [dirs |-> {}, files |-> {}]

HasFile(disk, dir, name) ==
    \E f \in disk.files : f.dir = dir /\ f.name = name

FileContent(disk, dir, name) ==
    (CHOOSE f \in disk.files : f.dir = dir /\ f.name = name).content

PutFile(disk, dir, name, content) ==
    [disk EXCEPT !.files =
        { f \in @ : ~(f.dir = dir /\ f.name = name) }
        \cup {[dir |-> dir, name |-> name, content |-> content]}]

\* the operations with a File::create that opens the file as it is
apply_op_no_truncate(disk, o) ==
    CASE o.op = "create_dir_all" -> [disk EXCEPT !.dirs = @ \cup {o.dir}]
      [] o.op = "create" ->
            IF HasFile(disk, o.dir, o.name) THEN disk
            ELSE PutFile(disk, o.dir, o.name, <<>>)
      [] o.op = "append" ->
            PutFile(disk, o.dir, o.name,
                    FileContent(disk, o.dir, o.name) \o o.content)
      [] o.op = "write" -> PutFile(disk, o.dir, o.name, o.content)
      [] OTHER -> disk

\* one operation applied to the disk: create_dir_all, File::create
\* (truncates), a write to the open index file, fs::write (replaces)
apply_op(disk, o) ==
    CASE o.op = "create_dir_all" -> [disk EXCEPT !.dirs = @ \cup {o.dir}]
      [] o.op = "create" -> PutFile(disk, o.dir, o.name, <<>>)
      [] o.op = "append" ->
            PutFile(disk, o.dir, o.name,
                    FileContent(disk, o.dir, o.name) \o o.content)
      [] o.op = "write" -> PutFile(disk, o.dir, o.name, o.content)
      [] OTHER -> disk

RECURSIVE apply_ops(_, _)
apply_ops(disk, ops) ==
    IF ops = <<>> THEN disk
    ELSE apply_ops(apply_op(disk, Head(ops)), Tail(ops))

Panics(ops) == \E k \in DOMAIN ops : ops[k].op = "panic"

(***************************************************************************)
(* Persistence run on chunk sequences: write_chunks called for a first     *)
(* source file and then for a second one, as the loop of run does through  *)
(* process_file.  A call may fail at any of its file system operations;    *)
(* the operations before the failing one have taken effect.                *)
(***************************************************************************)
\* the number of chunks of one source file
MaxChunks == 2

\* source files: two with the same stem, one with another
PersistSources == { <<"/", "a", ".", "h">>, <<"/", "a", ".", "c", "p", "p">>, <<"/", "b", ".", "c", "c">> }

\* chunks as the extractor emits them, each with the parts of its file name
\* and of its manifest record written out: a method whose name holds "::",
\* a method whose name is what that name is sanitized to, and a class
\* template whose name holds '<', '>' and '/'
ChunkLabels ==
    { [name |-> <<"a", ":", ":", "b">>, kind |-> "method", start_line |-> 1,
       end_line |-> 2, parent |-> Some(<<"a">>), content |-> <<"y", "\n", "z">>,
       tail |-> <<"_", "a", "_", "d", "o", "u", "b", "l", "e", "c", "o", "l", "o", "n", "_", "b", "_", "m", "e", "t", "h", "o", "d", "_", "2">>,
       record |-> <<" ", " ", "N", "a", "m", "e", ":", " ", "a", ":", ":", "b", "\n", " ", " ", "K", "i", "n", "d", ":", " ", "m", "e", "t", "h", "o", "d", "\n", " ", " ", "L", "i", "n", "e", "s", ":", " ", "2", "-", "3", "\n", " ", " ", "P", "a", "r", "e", "n", "t", ":", " ", "a", "\n", "-", "-", "-", "\n">>],
      [name |-> <<"a", "_", "d", "o", "u", "b", "l", "e", "c", "o", "l", "o", "n", "_", "b">>, kind |-> "method", start_line |-> 1,
       end_line |-> 2, parent |-> None, content |-> <<"q", "\n", "r">>,
       tail |-> <<"_", "a", "_", "d", "o", "u", "b", "l", "e", "c", "o", "l", "o", "n", "_", "b", "_", "m", "e", "t", "h", "o", "d", "_", "2">>,
       record |-> <<" ", " ", "N", "a", "m", "e", ":", " ", "a", "_", "d", "o", "u", "b", "l", "e", "c", "o", "l", "o", "n", "_", "b", "\n", " ", " ", "K", "i", "n", "d", ":", " ", "m", "e", "t", "h", "o", "d", "\n", " ", " ", "L", "i", "n", "e", "s", ":", " ", "2", "-", "3", "\n", "-", "-", "-", "\n">>],
      [name |-> <<"v", "<", "T", ">", "/", "w">>, kind |-> "class", start_line |-> 9,
       end_line |-> 11, parent |-> None, content |-> <<"c", "\n", "d", "\n", "e">>,
       tail |-> <<"_", "v", "_", "l", "e", "s", "s", "_", "T", "_", "g", "r", "e", "a", "t", "e", "r", "_", "_", "s", "l", "a", "s", "h", "_", "w", "_", "c", "l", "a", "s", "s", "_", "1", "0">>,
       record |-> <<" ", " ", "N", "a", "m", "e", ":", " ", "v", "<", "T", ">", "/", "w", "\n", " ", " ", "K", "i", "n", "d", ":", " ", "c", "l", "a", "s", "s", "\n", " ", " ", "L", "i", "n", "e", "s", ":", " ", "1", "0", "-", "1", "2", "\n", "-", "-", "-", "\n">>] }

\* the CodeChunk of a label
ChunkOf(l) ==
    [name |-> l.name, content |-> l.content, start_line |-> l.start_line,
     end_line |-> l.end_line, kind |-> l.kind, parent |-> l.parent]

ChunksOf(labels) == [i \in DOMAIN labels |-> ChunkOf(labels[i])]

PInit ==
    /\ p_source = None
    /\ p_labels = <<>>
    /\ p_disk = EmptyDisk
    /\ p_first = None
    /\ p_status = "first"

\* run, lines 322-331: the next source file is taken up
PBegin(source) ==
    /\ p_status \in {"first", "second"}
    /\ ~p_source.some
    /\ p_source' = Some(source)
    /\ UNCHANGED <<p_labels, p_disk, p_first, p_status>>

\* extract_chunks has one more chunk for the file
PAddChunk(l) ==
    /\ p_status \in {"first", "second"}
    /\ p_source.some
    /\ Len(p_labels) < MaxChunks
    /\ p_labels' = Append(p_labels, l)
    /\ UNCHANGED <<p_source, p_disk, p_first, p_status>>

\* process_file, lines 530-537, and run, lines 327-331: write_chunks runs;
\* it succeeds (n = all its operations), or fails at operation n + 1 and the
\* run returns the error
PWrite(n) ==
    /\ p_status \in {"first", "second"}
    /\ p_source.some
    /\ \E ops \in {write_chunks_ops(p_source.v, ChunksOf(p_labels))} :
           /\ n \in 0..Len(ops)
           /\ p_disk' = apply_ops(p_disk, SubSeq(ops, 1, n))
           /\ p_status' = IF n < Len(ops) \/ Panics(ops) THEN "error"
                          ELSE IF p_status = "first" THEN "second"
                          ELSE "done"
           /\ p_first' = IF p_status = "first" /\ n = Len(ops)
                         THEN Some([source |-> p_source.v,
                                    labels |-> p_labels,
                                    disk |-> apply_ops(p_disk, ops)])
                         ELSE p_first
           /\ p_source' = IF n = Len(ops) /\ p_status = "first"
                          THEN None ELSE p_source
           /\ p_labels' = IF n = Len(ops) /\ p_status = "first"
                          THEN <<>> ELSE p_labels

(***************************************************************************)
(* Properties of persistence                                               *)
(***************************************************************************)
\* write_chunks has just returned Ok
Written == p_status \in {"second", "done"}

\* the source file and the chunks of the call that has just returned Ok
LastSource == IF p_status = "done" THEN p_source.v ELSE p_first.v.source

LastLabels == IF p_status = "done" THEN p_labels ELSE p_first.v.labels

\* stem and extension of the source files, written out
ExpectedDir(source) == IF source = <<"/", "b", ".", "c", "c">> THEN <<"b">> ELSE <<"a">>

SourceExtension(source) ==
    CASE source = <<"/", "a", ".", "h">> -> <<"h">>
      [] source = <<"/", "a", ".", "c", "p", "p">> -> <<"c", "p", "p">>
      [] source = <<"/", "b", ".", "c", "c">> -> <<"c", "c">>

\* sequence numbers padded to three digits, and chunk counts, written out
Seq3 == << <<"0", "0", "1">>, <<"0", "0", "2">>, <<"0", "0", "3">>, <<"0", "0", "4">> >>

CountText == << <<"0">>, <<"1">>, <<"2">>, <<"3">>, <<"4">> >>

\* the files of a directory other than the manifest
ChunkFiles(disk, dir) ==
    { f \in disk.files : f.dir = dir /\ f.name # <<"_", "i", "n", "d", "e", "x", ".", "t", "x", "t">> }

\* C14: the content of the i-th chunk of a file is in the file named
\* {seq:03}_{sanitized_name}_{kind}_{start_line+1}.<extension of the source
\* file>.
C14_ChunkFileName ==
    Written =>
        \A i \in DOMAIN LastLabels :
            LET fname == Seq3[i] \o LastLabels[i].tail \o <<".">>
                         \o SourceExtension(LastSource)
            IN  /\ HasFile(p_disk, ExpectedDir(LastSource), fname)
                /\ FileContent(p_disk, ExpectedDir(LastSource), fname)
                       = LastLabels[i].content

\* C14 with the extension "cpp" for every source file: the rest of the name
\* is as the claim says
C14_CppExtension ==
    Written =>
        \A i \in DOMAIN LastLabels :
            LET fname == Seq3[i] \o LastLabels[i].tail \o <<".", "c", "p", "p">>
            IN  /\ HasFile(p_disk, ExpectedDir(LastSource), fname)
                /\ FileContent(p_disk, ExpectedDir(LastSource), fname)
                       = LastLabels[i].content

\* the manifest records of the chunks from the i-th on
RECURSIVE ExpectedRecords(_, _)
ExpectedRecords(labels, i) ==
    IF i > Len(labels) THEN <<>>
    ELSE <<"C", "h", "u", "n", "k", ":", " ">> \o Seq3[i] \o labels[i].tail \o <<".", "c", "p", "p", "\n">>
         \o labels[i].record \o ExpectedRecords(labels, i + 1)

\* C15: after write_chunks has succeeded, _index.txt in the directory of
\* the file stem holds the source path, the number of chunks, and one record
\* per chunk in output order with file name, qualified name, kind, 1-based
\* inclusive line range and the parent when there is one, each record ended
\* by a "---" line; with no chunks it holds the count 0 and no record.
C15_Manifest ==
    Written =>
        /\ HasFile(p_disk, ExpectedDir(LastSource), <<"_", "i", "n", "d", "e", "x", ".", "t", "x", "t">>)
        /\ FileContent(p_disk, ExpectedDir(LastSource), <<"_", "i", "n", "d", "e", "x", ".", "t", "x", "t">>)
               = <<"S", "o", "u", "r", "c", "e", " ", "f", "i", "l", "e", ":", " ">> \o LastSource
                 \o <<"\n", "N", "u", "m", "b", "e", "r", " ", "o", "f", " ", "c", "h", "u", "n", "k", "s", ":", " ">> \o CountText[Len(LastLabels) + 1]
                 \o <<"\n", "-", "-", "-", "\n">> \o ExpectedRecords(LastLabels, 1)

\* C15 witness: a second file, with the same stem as the first, was written
\* with two chunks, the first of them with a parent
C15_Witness ==
    /\ p_status = "done"
    /\ ExpectedDir(p_first.v.source) = ExpectedDir(p_source.v)
    /\ Len(p_first.v.labels) = 1
    /\ Len(p_labels) = 2
    /\ p_labels[1].parent.some
    /\ ~p_labels[2].parent.some

\* C16: the names write_chunks gives to the files of two chunks of one file
\* differ, whatever the chunk names; every chunk's content is in its own
\* file, and a directory written once holds as many chunk files as the
\* manifest counts.
C16_CollisionResistance ==
    Written =>
        LET chunks == ChunksOf(LastLabels)
            dir == ExpectedDir(LastSource)
        IN  /\ \A i, j \in DOMAIN chunks :
                   i # j => chunk_filename(i - 1, chunks[i]).v
                                # chunk_filename(j - 1, chunks[j]).v
            /\ \A i \in DOMAIN chunks :
                   FileContent(p_disk, dir,
                               chunk_filename(i - 1, chunks[i]).v)
                       = to_bytes(chunks[i].content)
            /\ p_status = "second"
                   => Cardinality(ChunkFiles(p_disk, dir)) = Len(chunks)

\* C16 witness: a chunk named a::b and a chunk named a_doublecolon_b, of the
\* same kind and start line
C16_Witness ==
    /\ p_status = "second"
    /\ Len(p_first.v.labels) = 2
    /\ p_first.v.labels[1].name = <<"a", ":", ":", "b">>
    /\ p_first.v.labels[2].name = <<"a", "_", "d", "o", "u", "b", "l", "e", "c", "o", "l", "o", "n", "_", "b">>
    /\ Cardinality(ChunkFiles(p_disk, <<"a">>)) = 2

\* C17: when write_chunks fails for the second file the run is over, and
\* what was written for the first file is on disk as it was.
C17_EarlierFilesRemain ==
    (p_status = "error" /\ p_first.some) =>
        /\ \A f \in p_first.v.disk.files : f \in p_disk.files
        /\ p_first.v.disk.dirs \subseteq p_disk.dirs

\* C17 for a second file whose stem is not that of the first
C17_OtherStem ==
    (/\ p_status = "error"
     /\ p_first.some
     /\ ExpectedDir(p_first.v.source) # ExpectedDir(p_source.v)) =>
        /\ \A f \in p_first.v.disk.files : f \in p_disk.files
        /\ p_first.v.disk.dirs \subseteq p_disk.dirs

\* C19: the same source path and the same chunks persisted a second time
\* leave the tree as the first time left it: same directory, same manifest,
\* same chunk files.
C19_Stability ==
    (/\ p_status = "done"
     /\ p_first.v.source = p_source.v
     /\ p_first.v.labels = p_labels) =>
        p_disk = p_first.v.disk

C19_Witness ==
    /\ p_status = "done"
    /\ p_first.v.source = p_source.v
    /\ p_first.v.labels = p_labels
    /\ Len(p_labels) = 2
    /\ p_labels[1] # p_labels[2]
    /\ Cardinality(p_disk.files) = 3

\* C23: when the chunks of a second, different source file have been
\* written, the manifest and the chunk files written for the first file are
\* on disk as they were written, whatever the names of the two files.
C23_EarlierOutputUntouched ==
    (p_status = "done" /\ p_first.v.source # p_source.v) =>
        \A f \in p_first.v.disk.files : f \in p_disk.files

\* C23 for two files whose stems differ
C23_OtherStem ==
    (/\ p_status = "done"
     /\ ExpectedDir(p_first.v.source) # ExpectedDir(p_source.v)) =>
        \A f \in p_first.v.disk.files : f \in p_disk.files

\* two files of different stems have been written, each with a chunk
C23_OtherStemReached ==
    /\ p_status = "done"
    /\ ExpectedDir(p_first.v.source) # ExpectedDir(p_source.v)
    /\ Len(p_first.v.labels) = 1
    /\ Len(p_labels) = 1
    /\ Cardinality(p_disk.files) = 4

(***************************************************************************)
(* The file names of two chunks of one file                                *)
(*                                                                         *)
(* The positions are those around the powers of ten, where the sequence    *)
(* number gains a digit; MaxDigits is the largest number of digits.        *)
(***************************************************************************)
MaxDigits == 4

RECURSIVE Pow10(_)
Pow10(k) == IF k = 0 THEN 1 ELSE 10 * Pow10(k - 1)

\* positions in the Vec<CodeChunk>, counted from 0
Positions ==
    {0, 1} \cup UNION { {Pow10(k) - 2, Pow10(k) - 1, Pow10(k)} :
                        k \in 1..(MaxDigits - 1) }

QInit ==
    /\ q_in = None
    /\ q_out = None

\* two chunks of the Vec<CodeChunk> of one file, the first before the second
QChoose(i, j, a, b) ==
    /\ ~q_in.some
    /\ i < j
    /\ q_in' = Some([i |-> i, j |-> j, a |-> a, b |-> b])
    /\ UNCHANGED q_out

\* write_chunks, lines 205-213: the file names of the two chunks
QName ==
    /\ q_in.some
    /\ ~q_out.some
    /\ q_out' = Some([first |-> chunk_filename(q_in.v.i, ChunkOf(q_in.v.a)).v,
                      second |-> chunk_filename(q_in.v.j,
                                                ChunkOf(q_in.v.b)).v])
    /\ UNCHANGED q_in

\* the bytes of file names in ascending order of their values
ByteOrder ==
    <<".", "0", "1", "2", "3", "4", "5", "6", "7", "8", "9", "T", "_">>
    \o SubSeq(CharOrder, 2, Len(CharOrder))

ByteRank(c) == CHOOSE k \in DOMAIN ByteOrder : ByteOrder[k] = c

\* a is before b in the lexicographic order of byte strings
LexLess(a, b) ==
    \/ Len(a) < Len(b) /\ SubSeq(b, 1, Len(a)) = a
    \/ \E k \in 1..Len(a) :
           /\ k <= Len(b)
           /\ SubSeq(a, 1, k - 1) = SubSeq(b, 1, k - 1)
           /\ ByteRank(a[k]) < ByteRank(b[k])

\* C28: sortability. The file name of a chunk is lexicographically before
\* the file name of every chunk that follows it in the extractor's output,
\* for any number of chunks.
C28_Sortable ==
    q_out.some => LexLess(q_out.v.first, q_out.v.second)

\* C28 for the first 999 chunks of a file
C28_SortableBelow1000 ==
    (q_out.some /\ q_in.v.j + 1 <= 999)
        => LexLess(q_out.v.first, q_out.v.second)

\* the 99th and the 100th chunk have been named
C28_ThreeDigitsReached ==
    /\ q_out.some
    /\ q_in.v.i = 98
    /\ q_in.v.j = 99
    /\ q_in.v.a = q_in.v.b

(***************************************************************************)
(* sanitize_name on bounded names                                          *)
(*                                                                         *)
(* A name is built from at most MaxPieces pieces: a letter, the separator  *)
(* "::", a single colon, the characters '<', '>' and '/', the two-byte     *)
(* character U+00E9, and a run of 197 letters that brings the name to the  *)
(* length at which sanitize_name truncates.                                *)
(***************************************************************************)
MaxPieces == 3

LongRun == [i \in 1..197 |-> "x"]

NamePieces ==
    { <<"a">>, <<":", ":">>, <<":">>, <<"<">>, <<">">>, <<"/">>, <<"U+E9">>,
      LongRun }

RECURSIVE Concat(_)
Concat(pieces) ==
    IF pieces = <<>> THEN <<>> ELSE Head(pieces) \o Concat(Tail(pieces))

NInit ==
    /\ n_name = <<>>
    /\ n_result = None

\* one more piece of the name
NamePush(piece) ==
    /\ ~n_result.some
    /\ Len(n_name) < MaxPieces
    /\ n_name' = Append(n_name, piece)
    /\ UNCHANGED n_result

\* sanitize_name is called on the name
Sanitize ==
    /\ ~n_result.some
    /\ n_result' = Some(sanitize_name(to_bytes(Concat(n_name))))
    /\ UNCHANGED n_name

\* the number of colons in a row just before position i
ColonsBefore(b, i) ==
    LET others == { j \in 1..(i - 1) : b[j] # ":" }
    IN  IF others = {} THEN i - 1
        ELSE i - 1 - CHOOSE j \in others : \A k \in others : k <= j

\* position i is the first colon of a "::" that is replaced: an even number
\* of colons goes before it and a colon follows
PairStart(b, i) ==
    /\ b[i] = ":"
    /\ i < Len(b)
    /\ b[i + 1] = ":"
    /\ ColonsBefore(b, i) % 2 = 0

\* what the byte at position i becomes
ReplacedAt(b, i) ==
    IF PairStart(b, i) THEN <<"_", "d", "o", "u", "b", "l", "e", "c", "o", "l", "o", "n", "_">>
    ELSE IF i > 1 /\ PairStart(b, i - 1) THEN <<>>
    ELSE IF b[i] = "<" THEN <<"_", "l", "e", "s", "s", "_">>
    ELSE IF b[i] = ">" THEN <<"_", "g", "r", "e", "a", "t", "e", "r", "_">>
    ELSE IF b[i] = "/" THEN <<"_", "s", "l", "a", "s", "h", "_">>
    ELSE <<b[i]>>

\* the bytes of the name with each "::", '<', '>' and '/' replaced
RECURSIVE ReplacedRange(_, _, _)
ReplacedRange(b, lo, hi) ==
    IF lo > hi THEN <<>>
    ELSE IF lo = hi THEN ReplacedAt(b, lo)
    ELSE ReplacedRange(b, lo, (lo + hi) \div 2)
         \o ReplacedRange(b, (lo + hi) \div 2 + 1, hi)

ExpectedReplaced(b) == ReplacedRange(b, 1, Len(b))

HasDoubleColon(b) ==
    \E i \in 1..(Len(b) - 1) : b[i] = ":" /\ b[i + 1] = ":"

\* the result is the name with the four separators replaced, cut to its
\* first 200 bytes, and holds none of the separators
SanitizedAsClaimed ==
    LET expected == ExpectedReplaced(to_bytes(Concat(n_name)))
        v == n_result.v.v
    IN  /\ ~n_result.v.panic
        /\ v = SubSeq(expected, 1, IF Len(expected) < 200 THEN Len(expected)
                                   ELSE 200)
        /\ Len(v) <= 200
        /\ ~HasDoubleColon(v)
        /\ \A i \in DOMAIN v : v[i] \notin {"<", ">", "/"}

\* C29: for every qualified name sanitize_name returns the name with each
\* "::", '<', '>' and '/' replaced by its substitute, left to right, cut to
\* its first 200 bytes when it is longer; the result holds none of the four.
C29_Sanitization == n_result.some => SanitizedAsClaimed

\* the cut at byte 200 falls inside a character of the replaced name
CutInsideCharacter ==
    LET expected == ExpectedReplaced(to_bytes(Concat(n_name)))
    IN  Len(expected) > 200 /\ expected[201] = "xA9"

\* C29 for the names whose cut does not fall inside a character
C29_CutOnBoundary ==
    (n_result.some /\ ~CutInsideCharacter) => SanitizedAsClaimed

\* a sanitized name of more than 200 bytes was cut between two characters
C29_CutReached ==
    /\ n_result.some
    /\ ~n_result.v.panic
    /\ Len(ExpectedReplaced(to_bytes(Concat(n_name)))) > 200
    /\ \E i \in DOMAIN n_name : n_name[i] = <<"U+E9">>
    /\ Len(n_result.v.v) = 200

(***************************************************************************)
(* serde_json::from_value::<Vec<Symbol>>: the derived Deserialize of       *)
(* Symbol, Range and Position (lines 22-42).  The structs are read from    *)
(* JSON objects; unknown keys are ignored.  character_key is the key of    *)
(* Position's second field ("character" by the serde rename of line 40).   *)
(***************************************************************************)
K_name == <<"n", "a", "m", "e">>
K_kind == <<"k", "i", "n", "d">>
K_range == <<"r", "a", "n", "g", "e">>
K_start == <<"s", "t", "a", "r", "t">>
K_end == <<"e", "n", "d">>
K_line == <<"l", "i", "n", "e">>
K_character == <<"c", "h", "a", "r", "a", "c", "t", "e", "r">>
K_children == <<"c", "h", "i", "l", "d", "r", "e", "n">>

\* the largest u8
U8Max == 255

decode_usize(opt) ==
    IF opt.some /\ opt.v.t = "num" /\ opt.v.n >= 0 THEN Some(opt.v.n) ELSE None

decode_u8(opt) ==
    IF opt.some /\ opt.v.t = "num" /\ opt.v.n >= 0 /\ opt.v.n <= U8Max
    THEN Some(opt.v.n)
    ELSE None

decode_position(opt, character_key) ==
    IF ~opt.some \/ opt.v.t # "obj" THEN None
    ELSE LET line == decode_usize(json_get(opt.v, K_line))
             character == decode_usize(json_get(opt.v, character_key))
         IN  IF line.some /\ character.some
             THEN Some([line |-> line.v, character |-> character.v])
             ELSE None

decode_range(opt, character_key) ==
    IF ~opt.some \/ opt.v.t # "obj" THEN None
    ELSE LET start == decode_position(json_get(opt.v, K_start), character_key)
             end == decode_position(json_get(opt.v, K_end), character_key)
         IN  IF start.some /\ end.some
             THEN Some([start |-> start.v, end |-> end.v])
             ELSE None

RECURSIVE decode_symbol(_, _)
RECURSIVE decode_symbol_vec(_, _)
decode_symbol(val, character_key) ==
    IF val.t # "obj" THEN None
    ELSE LET name == json_get(val, K_name)
             kind == decode_u8(json_get(val, K_kind))
             range == decode_range(json_get(val, K_range), character_key)
             kids == json_get(val, K_children)
             children == IF kids.some
                         THEN decode_symbol_vec(kids.v, character_key)
                         ELSE Some(<<>>)
         IN  IF name.some /\ name.v.t = "str" /\ kind.some /\ range.some
                /\ children.some
             THEN Some([name |-> name.v.s, kind |-> kind.v, range |-> range.v,
                        children |-> children.v])
             ELSE None

decode_symbol_vec(val, character_key) ==
    IF val.t # "arr" THEN None
    ELSE IF val.a = <<>> THEN Some(<<>>)
    ELSE LET first == decode_symbol(Head(val.a), character_key)
             rest == decode_symbol_vec(JArr(Tail(val.a)), character_key)
         IN  IF first.some /\ rest.some
             THEN Some(<<first.v>> \o rest.v)
             ELSE None

(***************************************************************************)
(* The session: Chunker::run, Chunker::process_file and                    *)
(* Chunker::read_document_symbols against the clangd child.                *)
(*                                                                         *)
(* A message sent to the child is the record of the fields of its json!    *)
(* template that vary: method, id (requests only), and the file.  What the *)
(* child writes is a sequence of frames of the catalogue SessionFrames; a  *)
(* read of the child's output is read_lsp_response on the bytes of the     *)
(* next frame.                                                             *)
(***************************************************************************)
\* the request ids of the json! templates (lines 300, 493, 336)
InitializeId == 1
DocumentSymbolId == 2
ShutdownId == 9999

InitializeRequest == [method |-> "initialize", id |-> InitializeId]

\* format!("file://{}", fs::canonicalize(file_path)) (lines 457-466), on a
\* path that is canonical already
file_uri(file_path) == <<"f", "i", "l", "e", ":", "/", "/">> \o file_path

DidOpenNotification(file_uri_, text) ==
    [method |-> "textDocument/didOpen", uri |-> file_uri_, text |-> text]

DocumentSymbolRequest(file_uri_) ==
    [method |-> "textDocument/documentSymbol", id |-> DocumentSymbolId,
     uri |-> file_uri_]

ShutdownRequest == [method |-> "shutdown", id |-> ShutdownId]

ExitNotification == [method |-> "exit"]

IsRequest(m) == "id" \in DOMAIN m

\* the number of files find_cpp_source_files returns
MaxFiles == 2

\* the number of frames the child writes in one session
MaxChildMsgs == 3

\* the source files of the project, as canonical absolute paths
FileUniverse == { <<"/", "a", ".", "c", "p", "p">>, <<"/", "a", ".", "h">>, <<"/", "b", ".", "c", "c">> }

\* fs::read_to_string(file_path)
FileText(file) ==
    IF file = <<"/", "b", ".", "c", "c">> THEN <<"p", "\n", "q", "\n", "r", "\n", "s", "\n">>
    ELSE <<"x", "\n", "y", "\n", "z", "\n">>

PositionJson(line, character) ==
    MkObj(<< <<K_line, JNum(line)>>, <<K_character, JNum(character)>> >>)

\* a DocumentSymbol without children as clangd reports it
SymbolJson(name, kind, start_line, end_line) ==
    MkObj(<< <<K_name, JStr(name)>>,
             <<K_kind, JNum(kind)>>,
             <<K_range,
               MkObj(<< <<K_start, PositionJson(start_line, 0)>>,
                        <<K_end, PositionJson(end_line, 1)>> >>)>> >>)

ChildFrame(kind, val) ==
    MkFrame(kind, "crlf", <<CLHeader(FmtNat(Len(to_string(val))))>>,
            to_string(val))

\* what the child may write: a notification, the initialize response, an
\* error response to a documentSymbol request, two symbol results, a null
\* result, a response whose id is the string "2", the shutdown response, a
\* frame without Content-Length and a frame whose body is no JSON
SessionFrames ==
    << ChildFrame("notification",
                  MkObj(<< <<K_method, JStr(<<"x">>)>> >>)),
       ChildFrame("init_response",
                  MkObj(<< <<K_id, JNum(1)>>, <<K_result, MkObj(<<>>)>> >>)),
       ChildFrame("error_response",
                  MkObj(<< <<K_id, JNum(2)>>, <<K_error, MkObj(<<>>)>> >>)),
       ChildFrame("no_symbols",
                  MkObj(<< <<K_id, JNum(2)>>, <<K_result, JArr(<<>>)>> >>)),
       ChildFrame("one_symbol",
                  MkObj(<< <<K_id, JNum(2)>>,
                           <<K_result,
                             JArr(<<SymbolJson(<<"f">>, 12, 0, 2)>>)>> >>)),
       ChildFrame("null_result",
                  MkObj(<< <<K_id, JNum(2)>>, <<K_result, JNull>> >>)),
       ChildFrame("string_id",
                  MkObj(<< <<K_id, JStr(<<"2">>)>>,
                           <<K_result, JArr(<<>>)>> >>)),
       ChildFrame("shutdown_response",
                  MkObj(<< <<K_id, JNum(9999)>>, <<K_result, JNull>> >>)),
       MkFrame("nocl", "crlf", <<ContentTypeHeader>>, EmptyObjBody),
       MkFrame("badjson", "crlf", <<CLHeader(<<"1">>)>>, <<"{">>) >>

FrameIds == DOMAIN SessionFrames

\* read_lsp_response on each frame of the catalogue
FrameRead == [f \in FrameIds |-> read_lsp_response(SessionFrames[f].bytes)]

\* the id the frame answers to, for the frames that carry a numeric id
FrameAnswersId(f) ==
    CASE SessionFrames[f].kind = "init_response" -> InitializeId
      [] SessionFrames[f].kind
             \in {"error_response", "no_symbols", "one_symbol", "null_result"}
           -> DocumentSymbolId
      [] SessionFrames[f].kind = "shutdown_response" -> ShutdownId
      [] OTHER -> 0

\* the test of read_document_symbols without the check of the id
is_document_symbols_response_any_id(response) ==
    json_get(response, K_result).some

\* the test of read_document_symbols on a response (lines 556-557)
is_document_symbols_response(response) ==
    LET id == json_get(response, K_id)
    IN  /\ id.some
        /\ as_u64(id.v).some
        /\ as_u64(id.v).v = DocumentSymbolId
        /\ json_get(response, K_result).some

\* one iteration of the loop of read_document_symbols (lines 547-577) on the
\* outcome r of read_lsp_response: return the symbols, return an error, or
\* go round again
document_symbols_step(r) ==
    IF ~r.ok THEN [disp |-> "read_error"]
    ELSE IF is_document_symbols_response(r.value)
    THEN LET d == decode_symbol_vec(json_get(r.value, K_result).v,
                                    K_character)
         IN  IF d.some THEN [disp |-> "accepted", symbols |-> d.v]
             ELSE [disp |-> "decode_error"]
    ELSE [disp |-> "discarded"]

\* document_symbols_step on each frame of the catalogue
FrameStep == [f \in FrameIds |-> document_symbols_step(FrameRead[f])]

\* the symbol lists read_document_symbols can return
SymbolLists ==
    {<<>>} \cup { FrameStep[f].symbols :
                     f \in { g \in FrameIds : FrameStep[g].disp = "accepted" } }

\* process_file, lines 519-539, on each file and each symbol list:
\* extract_chunks, then the file system operations of write_chunks
FileOps ==
    [file \in FileUniverse |->
        [symbols \in SymbolLists |->
            write_chunks_ops(file, extract_chunks(FileText(file), symbols))]]

\* the conditions of the LSP log file: it can be opened and written; it
\* cannot be created when run starts; it cannot be opened for appending;
\* it can be opened and the write fails
LogModes == {"ok", "nocreate", "noopen", "failwrite"}

\* File::options().append(true).open(..) replaced by an open that truncates
log_append_truncating(mode, log, entry) ==
    CASE mode = "ok" -> [ok |-> TRUE, log |-> <<entry>>]
      [] mode = "failwrite" -> [ok |-> FALSE, log |-> log]
      [] OTHER -> [ok |-> TRUE, log |-> log]

\* if let Ok(mut lsp_log) = File::options().append(true).open(..)
\*     { write!(lsp_log, ..)? }
\* (lines 369-372, 438-441, 573-576): nothing happens when the open fails,
\* the error of a failed write is returned
log_append(mode, log, entry) ==
    CASE mode = "ok" -> [ok |-> TRUE, log |-> Append(log, entry)]
      [] mode = "failwrite" -> [ok |-> FALSE, log |-> log]
      [] OTHER -> [ok |-> TRUE, log |-> log]

\* the text of the log entry of a response (line 437): the trimmed header
\* lines, each with '\n', then the body
response_log_entry(r) ==
    <<"<", "<", "<", " ", "R", "e", "s", "p", "o", "n", "s", "e", ":", "\n">> \o r.headers \o r.body \o <<"\n">>

\* one iteration of the loop of read_document_symbols with the log:
\* read_lsp_response appends the response it has parsed (lines 436-441),
\* the loop appends a line for the response it discards (lines 566-576);
\* a failed write to the log is the error of the call; r is the outcome of
\* read_lsp_response, on the frame f when there is one
read_document_symbols_step(mode, log, r, f) ==
    IF ~r.ok THEN [disp |-> "read_error", log |-> log]
    ELSE
    LET w == log_append(mode, log, [kind |-> "response", f |-> f])
        step == FrameStep[f]
        d == log_append(mode, w.log, [kind |-> "debug", f |-> f])
    IN  IF ~w.ok THEN [disp |-> "log_error", log |-> w.log]
        ELSE IF step.disp = "accepted"
        THEN [disp |-> "accepted", symbols |-> step.symbols, log |-> w.log]
        ELSE IF step.disp = "discarded"
        THEN [disp |-> IF d.ok THEN "discarded" ELSE "log_error",
              log |-> d.log]
        ELSE [disp |-> step.disp, log |-> w.log]

\* send_lsp_request in the session (lines 364-383): the entry of the request
\* is appended to the log, then the message is written to the child; a
\* failed write to the log returns before anything is written to the child
SendLspRequest(message, next) ==
    /\ limits.some => Len(sent) - c_taken < limits.v.stdin
    /\ \E w \in {log_append(l_mode, s_log,
                         [kind |-> "request", message |-> message])} :
        /\ s_log' = w.log
        /\ sent' = IF w.ok THEN Append(sent, message) ELSE sent
        /\ trace' = Append(trace, IF w.ok
                                  THEN [e |-> "send", n |-> Len(sent) + 1]
                                  ELSE [e |-> "send_failed"])
        /\ pc' = IF w.ok THEN next ELSE "error"

SInit ==
    /\ files \in { s \in UNION { [1..n -> FileUniverse] : n \in 0..MaxFiles } :
                     \A i, j \in DOMAIN s : i # j => s[i] # s[j] }
    /\ pc = "start"
    /\ idx = 1
    /\ sent = <<>>
    /\ fromChild = <<>>
    /\ childEnd = "open"
    /\ emitted = 0
    /\ s_symbols = <<>>
    /\ s_disk = EmptyDisk
    /\ trace = <<>>
    /\ s_log = <<>>
    /\ l_mode = "ok"
    /\ c_out = <<>>
    /\ c_taken = 0
    /\ c_want = 0
    /\ limits = None

\* the frames the child writes in the runs that look at the log: a
\* notification, a symbol result, a response whose id is a string, and a
\* frame whose body is no JSON
LogFrames ==
    { f \in FrameIds :
        SessionFrames[f].kind
            \in {"notification", "one_symbol", "string_id", "badjson"} }

\* the start of a run with at most MaxLogFiles files and the log file in
\* any condition
MaxLogFiles == 1

SLogInit ==
    /\ files \in UNION { [1..n -> FileUniverse] : n \in 0..MaxLogFiles }
    /\ pc = "start"
    /\ idx = 1
    /\ sent = <<>>
    /\ fromChild = <<>>
    /\ childEnd = "open"
    /\ emitted = 0
    /\ s_symbols = <<>>
    /\ s_disk = EmptyDisk
    /\ trace = <<>>
    /\ s_log = <<>>
    /\ l_mode \in LogModes
    /\ c_out = <<>>
    /\ c_taken = 0
    /\ c_want = 0
    /\ limits = None

\* run, lines 262-318: the log file is created, a failure ends the run;
\* the child is started and the initialize request is sent
SendInitialize ==
    /\ pc = "start"
    /\ IF l_mode = "nocreate"
       THEN /\ pc' = "error"
            /\ trace' = Append(trace, [e |-> "log_create_failed"])
            /\ UNCHANGED <<sent, s_log>>
       ELSE SendLspRequest(InitializeRequest, "loop")
    /\ UNCHANGED <<files, idx, fromChild, childEnd, emitted, s_symbols, s_disk,
                   l_mode>>
    /\ UNCHANGED <<c_out, c_taken, c_want, limits>>

\* process_file, lines 455-488: the file is read and didOpen is sent
SendDidOpen ==
    /\ pc = "loop"
    /\ idx <= Len(files)
    /\ SendLspRequest(DidOpenNotification(file_uri(files[idx]),
                                          FileText(files[idx])), "doc_symbol")
    /\ UNCHANGED <<files, idx, fromChild, childEnd, emitted, s_symbols, s_disk,
                   l_mode>>
    /\ UNCHANGED <<c_out, c_taken, c_want, limits>>

\* process_file, lines 490-508: the documentSymbol request is sent
SendDocumentSymbol ==
    /\ pc = "doc_symbol"
    /\ SendLspRequest(DocumentSymbolRequest(file_uri(files[idx])), "read")
    /\ UNCHANGED <<files, idx, fromChild, childEnd, emitted, s_symbols, s_disk,
                   l_mode>>
    /\ UNCHANGED <<c_out, c_taken, c_want, limits>>

\* read_document_symbols giving a file up, with no symbols, at the first
\* message that is not the response it waits for
ReadDocumentSymbols_GiveUp ==
    /\ pc = "read"
    /\ fromChild # <<>> \/ childEnd # "open"
    /\ \E f \in {IF fromChild # <<>> THEN Head(fromChild) ELSE 0},
          r \in {IF fromChild # <<>> THEN FrameRead[Head(fromChild)]
                 ELSE IF childEnd = "eof" THEN read_lsp_response(<<>>)
                 ELSE [ok |-> FALSE, err |-> "io"]} :
       \E step \in {read_document_symbols_step(l_mode, s_log, r, f)} :
           /\ trace' = Append(trace,
                  [e |-> "recv",
                   f |-> f,
                   file |-> idx,
                   disp |-> step.disp])
           /\ fromChild' = IF fromChild # <<>> THEN Tail(fromChild) ELSE <<>>
           /\ pc' = IF step.disp \in {"accepted", "discarded"} THEN "write"
                    ELSE "error"
           /\ s_symbols' = IF step.disp = "accepted" THEN step.symbols ELSE <<>>
           /\ s_log' = step.log
    /\ UNCHANGED <<files, idx, sent, childEnd, emitted, s_disk, l_mode>>
    /\ UNCHANGED <<c_out, c_taken, c_want, limits>>

\* read_document_symbols going on to the next file when a read or the
\* decoding fails
ReadDocumentSymbols_SkipFile ==
    /\ pc = "read"
    /\ fromChild # <<>> \/ childEnd # "open"
    /\ \E f \in {IF fromChild # <<>> THEN Head(fromChild) ELSE 0},
          r \in {IF fromChild # <<>> THEN FrameRead[Head(fromChild)]
                 ELSE IF childEnd = "eof" THEN read_lsp_response(<<>>)
                 ELSE [ok |-> FALSE, err |-> "io"]} :
       \E step \in {read_document_symbols_step(l_mode, s_log, r, f)} :
           /\ trace' = Append(trace,
                  [e |-> "recv",
                   f |-> f,
                   file |-> idx,
                   disp |-> step.disp])
           /\ fromChild' = IF fromChild # <<>> THEN Tail(fromChild) ELSE <<>>
           /\ pc' = CASE step.disp = "accepted" -> "write"
                      [] step.disp = "discarded" -> "read"
                      [] OTHER -> "loop"
           /\ idx' = IF step.disp \in {"accepted", "discarded"} THEN idx
                     ELSE idx + 1
           /\ s_symbols' = IF step.disp = "accepted" THEN step.symbols ELSE <<>>
           /\ s_log' = step.log
    /\ UNCHANGED <<files, sent, childEnd, emitted, s_disk, l_mode>>
    /\ UNCHANGED <<c_out, c_taken, c_want, limits>>

\* read_document_symbols handing the next file over as soon as the s_symbols
\* have arrived
ReadDocumentSymbols_NoWrite ==
    /\ pc = "read"
    /\ fromChild # <<>> \/ childEnd # "open"
    /\ \E f \in {IF fromChild # <<>> THEN Head(fromChild) ELSE 0},
          r \in {IF fromChild # <<>> THEN FrameRead[Head(fromChild)]
                 ELSE IF childEnd = "eof" THEN read_lsp_response(<<>>)
                 ELSE [ok |-> FALSE, err |-> "io"]} :
       \E step \in {read_document_symbols_step(l_mode, s_log, r, f)} :
           /\ trace' = Append(trace,
                  [e |-> "recv",
                   f |-> f,
                   file |-> idx,
                   disp |-> step.disp])
           /\ fromChild' = IF fromChild # <<>> THEN Tail(fromChild) ELSE <<>>
           /\ pc' = CASE step.disp = "accepted" -> "loop"
                      [] step.disp = "discarded" -> "read"
                      [] OTHER -> "error"
           /\ idx' = IF step.disp = "accepted" THEN idx + 1 ELSE idx
           /\ s_symbols' = <<>>
           /\ s_log' = step.log
    /\ UNCHANGED <<files, sent, childEnd, emitted, s_disk, l_mode>>
    /\ UNCHANGED <<c_out, c_taken, c_want, limits>>

\* process_file, lines 510-517: one iteration of the loop of
\* read_document_symbols.  The read blocks while the pipe is empty and open.
ReadDocumentSymbols ==
    /\ pc = "read"
    /\ fromChild # <<>> \/ childEnd # "open"
    /\ \E f \in {IF fromChild # <<>> THEN Head(fromChild) ELSE 0},
          r \in {IF fromChild # <<>> THEN FrameRead[Head(fromChild)]
                 ELSE IF childEnd = "eof" THEN read_lsp_response(<<>>)
                 ELSE [ok |-> FALSE, err |-> "io"]} :
       \E step \in {read_document_symbols_step(l_mode, s_log, r, f)} :
           /\ trace' = Append(trace,
                  [e |-> "recv",
                   f |-> f,
                   file |-> idx,
                   disp |-> step.disp])
           /\ fromChild' = IF fromChild # <<>> THEN Tail(fromChild) ELSE <<>>
           /\ pc' = CASE step.disp = "accepted" -> "write"
                      [] step.disp = "discarded" -> "read"
                      [] OTHER -> "error"
           /\ s_symbols' = IF step.disp = "accepted" THEN step.symbols ELSE <<>>
           /\ s_log' = step.log
    /\ UNCHANGED <<files, idx, sent, childEnd, emitted, s_disk, l_mode>>
    /\ UNCHANGED <<c_out, c_taken, c_want, limits>>

\* process_file, lines 519-539: extract_chunks, then write_chunks
WriteChunks ==
    /\ pc = "write"
    /\ \E ops \in {FileOps[files[idx]][s_symbols]} :
           /\ s_disk' = apply_ops(s_disk, ops)
           /\ pc' = IF Panics(ops) THEN "panic" ELSE "loop"
    /\ trace' = Append(trace, [e |-> "wrote", file |-> idx])
    /\ idx' = idx + 1
    /\ s_symbols' = <<>>
    /\ UNCHANGED <<files, sent, fromChild, childEnd, emitted, s_log, l_mode>>
    /\ UNCHANGED <<c_out, c_taken, c_want, limits>>

\* the shutdown request sent whether or not files are left
SendShutdown_Early ==
    /\ pc = "loop"
    /\ SendLspRequest(ShutdownRequest, "exit")
    /\ UNCHANGED <<files, idx, fromChild, childEnd, emitted, s_symbols, s_disk,
                   l_mode>>
    /\ UNCHANGED <<c_out, c_taken, c_want, limits>>

\* run, lines 333-341: after the last file the shutdown request is sent
SendShutdown ==
    /\ pc = "loop"
    /\ idx > Len(files)
    /\ SendLspRequest(ShutdownRequest, "exit")
    /\ UNCHANGED <<files, idx, fromChild, childEnd, emitted, s_symbols, s_disk,
                   l_mode>>
    /\ UNCHANGED <<c_out, c_taken, c_want, limits>>

\* run, lines 343-352: the exit notification is sent and run returns Ok
SendExit ==
    /\ pc = "exit"
    /\ SendLspRequest(ExitNotification, "done")
    /\ UNCHANGED <<files, idx, fromChild, childEnd, emitted, s_symbols, s_disk,
                   l_mode>>
    /\ UNCHANGED <<c_out, c_taken, c_want, limits>>

\* the child writes a frame, whatever it has been sent
ChildEmit(f) ==
    /\ childEnd = "open"
    /\ emitted < MaxChildMsgs
    /\ fromChild' = Append(fromChild, f)
    /\ emitted' = emitted + 1
    /\ UNCHANGED <<files, pc, idx, sent, childEnd, s_symbols, s_disk, trace,
                   s_log, l_mode>>
    /\ c_out' = Append(c_out, [f |-> f, re |-> 0])
    /\ UNCHANGED <<c_taken, c_want, limits>>

\* the child closes its output, or the pipe breaks
ChildStop(how) ==
    /\ childEnd = "open"
    /\ childEnd' = how
    /\ UNCHANGED <<files, pc, idx, sent, fromChild, emitted, s_symbols, s_disk,
                   trace, s_log, l_mode>>
    /\ UNCHANGED <<c_out, c_taken, c_want, limits>>

\* the log file stops being writable while the session runs: it can no
\* longer be opened, or writes to it fail
LogBreaks(how) ==
    /\ l_mode = "ok"
    /\ pc \in {"loop", "doc_symbol", "read", "exit"}
    /\ l_mode' = how
    /\ UNCHANGED <<files, pc, idx, sent, fromChild, childEnd, emitted,
                   s_symbols, s_disk, trace, s_log>>
    /\ UNCHANGED <<c_out, c_taken, c_want, limits>>

(***************************************************************************)
(* Properties of the session                                               *)
(***************************************************************************)
IsPrefix(s, t) == Len(s) <= Len(t) /\ \A i \in DOMAIN s : s[i] = t[i]

Last(s) == s[Len(s)]

FrameKind(f) == IF f = 0 THEN "none" ELSE SessionFrames[f].kind

\* the frames that are a message with numeric id 2 and a result field
MatchingKinds == {"no_symbols", "one_symbol", "null_result"}

\* the frames that are no message at all
MalformedKinds == {"nocl", "badjson"}

\* the symbol list a frame's result stands for
ExpectedSymbols(f) ==
    IF FrameKind(f) = "one_symbol"
    THEN << [name |-> <<"f">>, kind |-> 12,
              range |-> [start |-> [line |-> 0, character |-> 0],
                         end |-> [line |-> 2, character |-> 1]],
              children |-> <<>>] >>
    ELSE <<>>

\* the two messages of one file, then those of the files after it
RECURSIVE PerFileMessages(_)
PerFileMessages(fs) ==
    IF fs = <<>> THEN <<>>
    ELSE << [method |-> "textDocument/didOpen",
             uri |-> <<"f", "i", "l", "e", ":", "/", "/">> \o Head(fs), text |-> FileText(Head(fs))],
            [method |-> "textDocument/documentSymbol", id |-> 2,
             uri |-> <<"f", "i", "l", "e", ":", "/", "/">> \o Head(fs)] >>
         \o PerFileMessages(Tail(fs))

ExpectedMessages ==
    <<[method |-> "initialize", id |-> 1]>>
    \o PerFileMessages(files)
    \o <<[method |-> "shutdown", id |-> 9999], [method |-> "exit"]>>

Wrote(k) == \E t \in DOMAIN trace : trace[t].e = "wrote" /\ trace[t].file = k

IsSendOf(t, methods) ==
    /\ trace[t].e = "send"
    /\ sent[trace[t].n].method \in methods

IsFailure(ev) ==
    ev.e = "recv" /\ ev.disp \in {"read_error", "decode_error"}

\* C1: what has been sent is at every moment the beginning of: initialize
\* (id 1), then didOpen and documentSymbol (id 2) with the same URI for each
\* file in discovery order, then shutdown (id 9999), then exit; a run that
\* returns Ok has sent all of it and nothing more; shutdown is sent only
\* after every file has been processed.
C1_MessageSequence ==
    /\ IsPrefix(sent, ExpectedMessages)
    /\ pc = "done" => sent = ExpectedMessages
    /\ (\E k \in DOMAIN sent : sent[k].method = "shutdown")
           => \A i \in DOMAIN files : Wrote(i)

C1_Witness ==
    /\ pc = "done"
    /\ Len(files) = 2
    /\ Len(sent) = 7

\* C2: no didOpen notification or documentSymbol request is sent before the
\* response with id 1 has been received.
C2_HandshakeAwaited ==
    \A t \in DOMAIN trace :
        IsSendOf(t, {"textDocument/didOpen", "textDocument/documentSymbol"})
            => \E u \in 1..(t - 1) :
                   /\ trace[u].e = "recv"
                   /\ FrameKind(trace[u].f) = "init_response"

\* C3: every well-formed message received by the per-file query that is
\* not an id-2 message with a result field is discarded without an error;
\* the first message that is one ends the query, every message the query
\* received before it having been discarded; and the symbols the query
\* returns are the result of that message.
C3_FirstMatchingResult ==
    /\ \A t \in DOMAIN trace :
           (trace[t].e = "recv" /\ trace[t].f # 0
              /\ FrameKind(trace[t].f) \notin MalformedKinds)
           => IF FrameKind(trace[t].f) \in MatchingKinds
              THEN /\ trace[t].disp \in {"accepted", "decode_error"}
                   /\ \A u \in 1..(t - 1) :
                          (trace[u].e = "recv"
                             /\ trace[u].file = trace[t].file)
                          => /\ trace[u].disp = "discarded"
                             /\ FrameKind(trace[u].f) \notin MatchingKinds
              ELSE /\ trace[t].disp = "discarded"
                   /\ (t = Len(trace) => pc = "read")
    /\ pc = "write"
           => /\ Last(trace).e = "recv"
              /\ Last(trace).disp = "accepted"
              /\ FrameKind(Last(trace).f) \in MatchingKinds
              /\ s_symbols = ExpectedSymbols(Last(trace).f)

C3_Witness ==
    /\ pc = "write"
    /\ s_symbols # <<>>
    /\ Len(trace) >= 3
    /\ trace[Len(trace) - 1].e = "recv"
    /\ FrameKind(trace[Len(trace) - 1].f) = "error_response"
    /\ trace[Len(trace) - 1].disp = "discarded"
    /\ trace[Len(trace) - 2].e = "recv"
    /\ FrameKind(trace[Len(trace) - 2].f) \in {"notification", "init_response"}
    /\ trace[Len(trace) - 2].disp = "discarded"

\* C4: a read that finds the stream closed or broken, a frame that is no
\* message, or an id-2 result that is no symbol list makes the run return an
\* error; the failure is the last thing the session does: nothing is sent
\* after it, no later file is opened, and no chunks are written for the
\* file that failed or a later one.
C4_FailFast ==
    /\ \A t \in DOMAIN trace :
           (trace[t].e = "recv"
              /\ \/ trace[t].f = 0
                 \/ FrameKind(trace[t].f) \in MalformedKinds
                 \/ FrameKind(trace[t].f) = "null_result")
           => IsFailure(trace[t])
    /\ \A t \in DOMAIN trace :
           IsFailure(trace[t])
           => /\ t = Len(trace)
              /\ pc = "error"
              /\ idx = trace[t].file
              /\ \A k \in DOMAIN files : k >= idx => ~Wrote(k)
              /\ sent = SubSeq(ExpectedMessages, 1, 1 + 2 * idx)
    /\ pc = "error" => trace # <<>> /\ IsFailure(Last(trace))

C4_Witness ==
    /\ pc = "error"
    /\ idx = 1
    /\ Len(files) = 2
    /\ Last(trace).disp = "decode_error"
    /\ s_disk = EmptyDisk

\* the manifest of a file whose symbol result was the frame f
ExpectedManifest(file, f) ==
    <<"S", "o", "u", "r", "c", "e", " ", "f", "i", "l", "e", ":", " ">> \o file \o <<"\n", "N", "u", "m", "b", "e", "r", " ", "o", "f", " ", "c", "h", "u", "n", "k", "s", ":", " ">>
    \o (IF FrameKind(f) = "one_symbol"
        THEN <<"1", "\n", "-", "-", "-", "\n", "C", "h", "u", "n", "k", ":", " ", "0", "0", "1", "_", "f", "_", "f", "u", "n", "c", "t", "i", "o", "n", "_", "1", ".", "c", "p", "p", "\n", " ", " ", "N", "a", "m", "e", ":", " ", "f", "\n", " ", " ", "K", "i", "n", "d", ":", " ", "f", "u", "n", "c", "t", "i", "o", "n", "\n", " ", " ", "L", "i", "n", "e", "s", ":", " ", "1", "-", "3", "\n", "-", "-", "-", "\n">>
        ELSE <<"0", "\n", "-", "-", "-", "\n">>)

\* C5: when the didOpen notification of a file is sent, the symbols of the
\* file before it have been received and, after that, its chunks have been
\* written; and when the chunks of a file have been written its directory
\* holds the whole manifest and the chunk file.
C5_NoOverlap ==
    /\ \A t \in DOMAIN trace, k \in DOMAIN files :
           (/\ IsSendOf(t, {"textDocument/didOpen"})
            /\ k > 1
            /\ sent[trace[t].n].uri = <<"f", "i", "l", "e", ":", "/", "/">> \o files[k])
           => \E u, v \in 1..(t - 1) :
                  /\ u < v
                  /\ trace[u].e = "recv"
                  /\ trace[u].disp = "accepted"
                  /\ trace[u].file = k - 1
                  /\ trace[v].e = "wrote"
                  /\ trace[v].file = k - 1
    /\ (trace # <<>> /\ Last(trace).e = "wrote")
           => LET k == Last(trace).file
                  f == trace[Len(trace) - 1].f
                  dir == file_stem(files[k])
              IN  /\ dir \in s_disk.dirs
                  /\ HasFile(s_disk, dir, IndexName)
                  /\ FileContent(s_disk, dir, IndexName)
                         = ExpectedManifest(files[k], f)
                  /\ FrameKind(f) = "one_symbol"
                         => /\ HasFile(s_disk, dir, <<"0", "0", "1", "_", "f", "_", "f", "u", "n", "c", "t", "i", "o", "n", "_", "1", ".", "c", "p", "p">>)
                            /\ FileContent(s_disk, dir,
                                           <<"0", "0", "1", "_", "f", "_", "f", "u", "n", "c", "t", "i", "o", "n", "_", "1", ".", "c", "p", "p">>)
                                   = SubSeq(FileText(files[k]), 1, 5)

C5_Witness ==
    /\ Len(files) = 2
    /\ pc = "doc_symbol"
    /\ idx = 2
    /\ HasFile(s_disk, file_stem(files[1]), <<"0", "0", "1", "_", "f", "_", "f", "u", "n", "c", "t", "i", "o", "n", "_", "1", ".", "c", "p", "p">>)

\* the requests sent that no response received since has answered
Outstanding ==
    { k \in DOMAIN sent :
        /\ IsRequest(sent[k])
        /\ ~ \E t, u \in DOMAIN trace :
               /\ trace[t].e = "send"
               /\ trace[t].n = k
               /\ t < u
               /\ trace[u].e = "recv"
               /\ trace[u].f # 0
               /\ FrameAnswersId(trace[u].f) = sent[k].id }

\* C6: at most one request sent to the child is still awaiting its
\* response.
C6_OneRequestInFlight == Cardinality(Outstanding) <= 1

(***************************************************************************)
(* Properties of the log                                                   *)
(***************************************************************************)
\* the entries of the messages exchanged, in the order of the exchange: a
\* request for each message written to the child, a response for each
\* message read_lsp_response has read from the child
RECURSIVE ExchangedEntries(_)
ExchangedEntries(tr) ==
    IF tr = <<>> THEN <<>>
    ELSE LET ev == Head(tr)
         IN  (CASE ev.e = "send"
                     -> <<[kind |-> "request", message |-> sent[ev.n]]>>
                [] ev.e = "recv" /\ ev.f # 0
                       /\ FrameKind(ev.f) \notin MalformedKinds
                     -> <<[kind |-> "response", f |-> ev.f]>>
                [] OTHER -> <<>>)
             \o ExchangedEntries(Tail(tr))

IsRequestOrResponse(entry) == entry.kind \in {"request", "response"}

\* the bytes without the carriage returns
IsNotCR(c) == c # "\r"

StripCR(b) == SelectSeq(b, IsNotCR)

\* the text of the response entry of a frame that is a message
ResponseText(f) == response_log_entry(FrameRead[f])

\* the log holds a request entry for every message sent and a response
\* entry, with the header lines and the body, for every message received
LogIsComplete ==
    /\ SelectSeq(s_log, IsRequestOrResponse) = ExchangedEntries(trace)
    /\ \A i \in DOMAIN s_log :
           s_log[i].kind = "response"
           => ResponseText(s_log[i].f)
                  = <<"<", "<", "<", " ", "R", "e", "s", "p", "o", "n", "s", "e", ":", "\n">>
                    \o StripCR(SessionFrames[s_log[i].f].bytes) \o <<"\n">>

FrameDisposition(f) ==
    IF f = 0 THEN "read_error"
    ELSE document_symbols_step(FrameRead[f]).disp

\* the sends and receives are the ones the files and the child's output
\* determine: every send succeeds, the messages sent are the messages of the
\* protocol, every receive has the outcome of the frame read, and only a
\* failed receive ends the run with an error
OutcomesFollowChild ==
    /\ \A t \in DOMAIN trace :
           /\ trace[t].e \in {"send", "recv", "wrote"}
           /\ trace[t].e = "recv"
                  => trace[t].disp = FrameDisposition(trace[t].f)
    /\ IsPrefix(sent, ExpectedMessages)
    /\ pc = "done" => sent = ExpectedMessages
    /\ pc = "error" => trace # <<>> /\ IsFailure(Last(trace))

\* C20: the messages written to the child and the outcome of every send,
\* receive and per-file query are those the child's output determines,
\* whether the log file can be opened and written, cannot be opened, or
\* fails on write.
C20_LoggingHasNoInfluence == OutcomesFollowChild

\* C20 for a log file that can be written or cannot be opened for appending
C20_LogNotOpenable == l_mode \in {"ok", "noopen"} => OutcomesFollowChild

(***************************************************************************)
(* The end of the run: shutdown, exit and the child's output               *)
(***************************************************************************)
\* the frames the session has read
FramesRead == SelectSeq(trace, LAMBDA ev : ev.e = "recv" /\ ev.f # 0)

\* every frame the session reads is the next frame the child has written
ReadInOrder ==
    \A k \in DOMAIN FramesRead : FramesRead[k].f = c_out[k].f

\* C26: at the end of a successful run no frame the child has written is
\* left unread in the pipe: after the shutdown request the session reads
\* what the child has written
C26_OutputDrained == pc = "done" => fromChild = <<>>

\* the reads of the session all happen before the shutdown request: no
\* frame is read after it
C26_NoReadAfterShutdown ==
    \A i, j \in DOMAIN trace :
        (trace[i].e = "send" /\ sent[trace[i].n] = ShutdownRequest
            /\ trace[j].e = "recv") => j < i

C26_UnreadAtEnd == pc = "done" /\ fromChild # <<>> /\ Len(files) > 0

(***************************************************************************)
(* The child as a process that answers the requests it is sent             *)
(***************************************************************************)
\* the number of frames that are no response the child writes in one session
MaxOther == 1

\* the source files in the order the project is walked
FileList == << <<"/", "a", ".", "c", "p", "p">>, <<"/", "a", ".", "h">>, <<"/", "b", ".", "c", "c">> >>

\* the start of a run over the first files of the project
SAnswerInit ==
    /\ files \in { SubSeq(FileList, 1, n) : n \in 0..MaxFiles }
    /\ pc = "start"
    /\ idx = 1
    /\ sent = <<>>
    /\ fromChild = <<>>
    /\ childEnd = "open"
    /\ emitted = 0
    /\ s_symbols = <<>>
    /\ s_disk = EmptyDisk
    /\ trace = <<>>
    /\ s_log = <<>>
    /\ l_mode = "ok"
    /\ c_out = <<>>
    /\ c_taken = 0
    /\ c_want = 0
    /\ limits = None

\* the frames that are the response to a request
ResponseFrames == { f \in FrameIds : FrameAnswersId(f) # 0 }

\* the requests among the messages sent that the child has not answered
Unanswered ==
    { n \in DOMAIN sent :
        IsRequest(sent[n]) /\ \A k \in DOMAIN c_out : c_out[k].re # n }

\* the child writes the response to a request it has been sent and has not
\* answered: a frame with the id of the request
ChildAnswer(n, f) ==
    /\ childEnd = "open"
    /\ n \in Unanswered
    /\ FrameAnswersId(f) = sent[n].id
    /\ fromChild' = Append(fromChild, f)
    /\ emitted' = emitted + 1
    /\ c_out' = Append(c_out, [f |-> f, re |-> n])
    /\ UNCHANGED <<files, pc, idx, sent, childEnd, s_symbols, s_disk, trace,
                   s_log, l_mode, c_taken, c_want, limits>>

\* the child writes a frame that answers no request of the session; at most
\* MaxOther of them
ChildOther(f) ==
    /\ childEnd = "open"
    /\ Cardinality({ k \in DOMAIN c_out : c_out[k].re = 0 }) < MaxOther
    /\ fromChild' = Append(fromChild, f)
    /\ emitted' = emitted + 1
    /\ c_out' = Append(c_out, [f |-> f, re |-> 0])
    /\ UNCHANGED <<files, pc, idx, sent, childEnd, s_symbols, s_disk, trace,
                   s_log, l_mode, c_taken, c_want, limits>>

\* the frames that are a message with id 2 and a result that decodes as a
\* list of symbols
GoodResults == { f \in FrameIds : FrameKind(f) \in {"no_symbols", "one_symbol"} }

\* the frames that are a message: Content-Length and a JSON body
WellFramed == { f \in FrameIds : FrameKind(f) \notin MalformedKinds }

\* the child delivers the symbols a documentSymbol request asks for
ChildDeliver(n, f) ==
    /\ n \in Unanswered
    /\ sent[n].id = DocumentSymbolId
    /\ f \in GoodResults
    /\ ChildAnswer(n, f)

\* the number of frames the session has read when it has made the i-th
\* entry of the trace
FramesReadAt(i) ==
    Cardinality({ j \in 1..i : trace[j].e = "recv" /\ trace[j].f # 0 })

\* C21: with a child that answers each request at most once, the symbols
\* accepted for a file are the child's response to the documentSymbol
\* request of that very file, never the response to the request of an
\* earlier file
C21_OwnResponse ==
    \A i \in DOMAIN trace :
        (trace[i].e = "recv" /\ trace[i].disp = "accepted") =>
            LET o == c_out[FramesReadAt(i)]
            IN  /\ o.f = trace[i].f
                /\ o.re \in DOMAIN sent
                /\ sent[o.re] =
                       DocumentSymbolRequest(file_uri(files[trace[i].file]))

\* the symbols of the second file have been accepted, after a frame that
\* is no response was discarded
C21_Witness ==
    /\ \E i \in DOMAIN trace :
           /\ trace[i].e = "recv"
           /\ trace[i].disp = "accepted"
           /\ trace[i].file = 2
    /\ \E i \in DOMAIN trace : trace[i].e = "recv" /\ trace[i].disp = "discarded"

(***************************************************************************)
(* Termination of the run                                                  *)
(***************************************************************************)
\* run has sent shutdown and exit and has returned Ok
RunSucceeded ==
    /\ pc = "done"
    /\ Len(sent) >= 2
    /\ sent[Len(sent) - 1] = ShutdownRequest
    /\ sent[Len(sent)] = ExitNotification

\* the session is in the read of read_lsp_response and the child has
\* written nothing that is unread
BlockedInRead == pc = "read" /\ fromChild = <<>> /\ childEnd = "open"

\* while the child writes nothing the session stays in the read: no
\* timeout, no abort
StaysBlocked ==
    [][BlockedInRead =>
          /\ pc' = "read"
          /\ idx' = idx
          /\ sent' = sent
          /\ trace' = trace]_vars

\* the child has written, besides its responses, a message with id 2 and
\* a result that does not decode as a list of symbols
UndecodableExtra ==
    \E k \in DOMAIN c_out :
        c_out[k].re = 0 /\ FrameKind(c_out[k].f) = "null_result"

C22_Blocked == BlockedInRead /\ idx = 2

(***************************************************************************)
(* The two pipes with a finite capacity: a write to a full pipe blocks     *)
(* until the other side has read.  The capacity is counted in messages.    *)
(***************************************************************************)
\* the largest capacity of a pipe
MaxPipe == 2

\* the start of a run with pipes of a capacity from 1 to MaxPipe
SPipesInit ==
    /\ files \in { SubSeq(FileList, 1, n) : n \in 0..MaxFiles }
    /\ pc = "start"
    /\ idx = 1
    /\ sent = <<>>
    /\ fromChild = <<>>
    /\ childEnd = "open"
    /\ emitted = 0
    /\ s_symbols = <<>>
    /\ s_disk = EmptyDisk
    /\ trace = <<>>
    /\ s_log = <<>>
    /\ l_mode = "ok"
    /\ c_out = <<>>
    /\ c_taken = 0
    /\ c_want = 0
    /\ limits \in { Some([stdin |-> a, stdout |-> b]) : a, b \in 1..MaxPipe }

\* the child reads the next message from its stdin; it does not read while
\* it is writing
ChildTake ==
    /\ childEnd = "open"
    /\ c_want = 0
    /\ c_taken < Len(sent)
    /\ c_taken' = c_taken + 1
    /\ UNCHANGED <<files, pc, idx, sent, fromChild, childEnd, emitted,
                   s_symbols, s_disk, trace, s_log, l_mode, c_out, c_want,
                   limits>>

\* the child starts to write a frame to its stdout
ChildWant(f) ==
    /\ childEnd = "open"
    /\ c_want = 0
    /\ emitted < MaxChildMsgs
    /\ c_want' = f
    /\ emitted' = emitted + 1
    /\ UNCHANGED <<files, pc, idx, sent, fromChild, childEnd, s_symbols,
                   s_disk, trace, s_log, l_mode, c_out, c_taken, limits>>

\* the write of the child returns when the pipe has room for the frame
ChildFinish ==
    /\ c_want # 0
    /\ Len(fromChild) < limits.v.stdout
    /\ fromChild' = Append(fromChild, c_want)
    /\ c_out' = Append(c_out, [f |-> c_want, re |-> 0])
    /\ c_want' = 0
    /\ UNCHANGED <<files, pc, idx, sent, childEnd, emitted, s_symbols, s_disk,
                   trace, s_log, l_mode, c_taken, limits>>

\* the session is in send_lsp_request and the pipe to the child is full
SessionBlockedWriting ==
    /\ limits.some
    /\ pc \in {"start", "loop", "doc_symbol", "exit"}
    /\ Len(sent) - c_taken >= limits.v.stdin

\* the child is in a write and the pipe to the session is full
ChildBlockedWriting ==
    /\ limits.some
    /\ c_want # 0
    /\ Len(fromChild) >= limits.v.stdout

\* C25: with pipes of finite capacity the session is never blocked writing
\* to the child while the child is blocked writing to the session
C25_NoWriteWriteDeadlock == ~(SessionBlockedWriting /\ ChildBlockedWriting)

\* when both are blocked writing, neither side ever moves again
C25_DeadlockIsFinal ==
    [][(SessionBlockedWriting /\ ChildBlockedWriting) => FALSE]_vars

\* the session and the child are both blocked writing while a file is open
C25_Deadlocked ==
    /\ SessionBlockedWriting
    /\ ChildBlockedWriting
    /\ pc = "doc_symbol"

(***************************************************************************)
(* The per-file query of the standalone binary (src/main.rs) and of        *)
(* Chunker (src/chunking.rs) on the same output of the child               *)
(***************************************************************************)
\* the number of frames the child writes before the queries run
MaxQuery == 2

\* the field name serde expects for Position::_character in main.rs, where
\* the field has no rename (lines 56-60)
K__character == <<"_">> \o K_character

\* the bytes of the frames, in the order they were written
RECURSIVE StreamBytes(_)
StreamBytes(fs) ==
    IF fs = <<>> THEN <<>>
    ELSE SessionFrames[Head(fs)].bytes \o StreamBytes(Tail(fs))

\* the position of the k-th '\n' of s
NewlineAt(s, k) ==
    CHOOSE i \in DOMAIN s :
        /\ s[i] = "\n"
        /\ Cardinality({ j \in 1..(i - 1) : s[j] = "\n" }) = k - 1

\* BufRead::lines(): the stream split at '\n', each line without its '\n'
\* or "\r\n"; the bytes after the last '\n' are a line when there are any
buf_lines(s) ==
    LET n == Cardinality({ i \in DOMAIN s : s[i] = "\n" })
        first(k) == IF k = 1 THEN 1 ELSE NewlineAt(s, k - 1) + 1
        last(k) == IF k > n THEN Len(s)
                   ELSE IF NewlineAt(s, k) > first(k) /\ s[NewlineAt(s, k) - 1] = "\r"
                   THEN NewlineAt(s, k) - 2
                   ELSE NewlineAt(s, k) - 1
        count == IF n = 0 THEN (IF s = <<>> THEN 0 ELSE 1)
                 ELSE IF NewlineAt(s, n) < Len(s) THEN n + 1 ELSE n
    IN  [k \in 1..count |-> SubSeq(s, first(k), last(k))]

\* the bytes of a line are UTF-8, as std::io::Lines requires
line_is_utf8(l) ==
    \A i \in DOMAIN l :
        /\ l[i] # "xFF"
        /\ l[i] = "xC3" => (i < Len(l) /\ l[i + 1] = "xA9")
        /\ l[i] = "xA9" => (i > 1 /\ l[i - 1] = "xC3")

\* main.rs, lines 244-265: the loop over stdout.lines(): the lines up to
\* the first empty one are headers, every line after it is appended to
\* content without its line end
RECURSIVE main_content(_, _)
main_content(ls, in_header) ==
    IF ls = <<>> THEN <<>>
    ELSE IF in_header
    THEN main_content(Tail(ls), Head(ls) # <<>>)
    ELSE Head(ls) \o main_content(Tail(ls), FALSE)

\* the test of main.rs, lines 270-271
main_is_document_symbols_response(response) ==
    LET id == json_get(response, K_id)
    IN  /\ id.some
        /\ as_u64(id.v).some
        /\ as_u64(id.v).v = DocumentSymbolId
        /\ json_get(response, K_result).some

\* read_document_symbols of main.rs (lines 236-283) on the child's stdout:
\* the lines are read to the end of the stream, so the call does not return
\* while the child keeps its stdout open
main_read_document_symbols(fs, is_closed) ==
    IF ~is_closed THEN [status |-> "blocked"]
    ELSE
    LET ls == buf_lines(StreamBytes(fs))
        response == from_slice(main_content(ls, TRUE))
    IN  IF (\E k \in DOMAIN ls : ~line_is_utf8(ls[k])) \/ ~response.ok
        THEN [status |-> "error", consumed |-> Len(fs)]
        ELSE IF main_is_document_symbols_response(response.v)
        THEN LET d == decode_symbol_vec(json_get(response.v, K_result).v,
                                        K__character)
             IN  IF d.some
                 THEN [status |-> "ok", symbols |-> d.v, consumed |-> Len(fs)]
                 ELSE [status |-> "error", consumed |-> Len(fs)]
        ELSE [status |-> "error", consumed |-> Len(fs)]

\* read_document_symbols of chunking.rs (lines 542-578) on the child's
\* stdout, from the k-th frame on
RECURSIVE chunker_read_document_symbols(_, _, _)
chunker_read_document_symbols(fs, is_closed, k) ==
    IF k > Len(fs)
    THEN IF is_closed THEN [status |-> "error", consumed |-> Len(fs)]
         ELSE [status |-> "blocked"]
    ELSE IF FrameStep[fs[k]].disp = "accepted"
    THEN [status |-> "ok", symbols |-> FrameStep[fs[k]].symbols, consumed |-> k]
    ELSE IF FrameStep[fs[k]].disp = "discarded"
    THEN chunker_read_document_symbols(fs, is_closed, k + 1)
    ELSE [status |-> "error", consumed |-> k]

MInit ==
    /\ m_stream = <<>>
    /\ m_closed = FALSE
    /\ m_result = None

\* the child writes a frame
MWrite(f) ==
    /\ ~m_closed
    /\ m_result = None
    /\ Len(m_stream) < MaxQuery
    /\ m_stream' = Append(m_stream, f)
    /\ UNCHANGED <<m_closed, m_result>>

\* the child closes its stdout
MClose ==
    /\ ~m_closed
    /\ m_result = None
    /\ m_closed' = TRUE
    /\ UNCHANGED <<m_stream, m_result>>

\* the two queries run on the output of the child
MQuery ==
    /\ m_result = None
    /\ \E c \in {chunker_read_document_symbols(m_stream, m_closed, 1)},
          m \in {main_read_document_symbols(m_stream, m_closed)} :
           m_result' = Some([chunker |-> c, main |-> m])
    /\ UNCHANGED <<m_stream, m_closed>>

\* C30: on the same output of the child the two queries return the same
\* symbols after consuming the same frames, or both fail
C30_QueriesEquivalent ==
    (m_result.some /\ m_closed /\ m_stream # <<>>) =>
        \/ /\ m_result.v.chunker.status = "ok"
           /\ m_result.v.main.status = "ok"
           /\ m_result.v.chunker.symbols = m_result.v.main.symbols
           /\ m_result.v.chunker.consumed = m_result.v.main.consumed
        \/ /\ m_result.v.chunker.status = "error"
           /\ m_result.v.main.status = "error"

\* when the query of main.rs returns symbols, the query of Chunker returns
\* the same symbols
C30_MainRefinesChunker ==
    (m_result.some /\ m_result.v.main.status = "ok") =>
        /\ m_result.v.chunker.status = "ok"
        /\ m_result.v.chunker.symbols = m_result.v.main.symbols

\* the child has written one response with one symbol and has closed its
\* stdout: Chunker returns the symbol, main.rs fails
C30_SymbolLost ==
    /\ m_result.some
    /\ m_closed
    /\ Len(m_stream) = 1
    /\ m_result.v.chunker.status = "ok"
    /\ m_result.v.chunker.symbols # <<>>
    /\ m_result.v.main.status = "error"

\* both queries return the empty list
C30_BothEmpty ==
    /\ m_result.some
    /\ m_result.v.chunker.status = "ok"
    /\ m_result.v.main.status = "ok"

(***************************************************************************)
(* Specifications                                                          *)
(***************************************************************************)
\* the parts of the state a specification does not use stay as they are here
FIdle ==
    /\ wire = <<>>
    /\ written = <<>>
    /\ got = <<>>
    /\ closed = FALSE

EIdle ==
    /\ e_content = <<>>
    /\ e_symbols = <<>>
    /\ e_chunks = [done |-> FALSE, chunks |-> <<>>]

SIdle ==
    /\ files = <<>>
    /\ pc = "idle"
    /\ idx = 1
    /\ sent = <<>>
    /\ fromChild = <<>>
    /\ childEnd = "open"
    /\ emitted = 0
    /\ s_symbols = <<>>
    /\ s_disk = EmptyDisk
    /\ trace = <<>>
    /\ s_log = <<>>
    /\ l_mode = "ok"
    /\ c_out = <<>>
    /\ c_taken = 0
    /\ c_want = 0
    /\ limits = None

PIdle ==
    /\ p_source = None
    /\ p_labels = <<>>
    /\ p_disk = EmptyDisk
    /\ p_first = None
    /\ p_status = "idle"

NIdle ==
    /\ n_name = <<>>
    /\ n_result = [some |-> TRUE, v |-> [panic |-> FALSE, v |-> <<>>]]

QIdle ==
    /\ q_in = None
    /\ q_out = [some |-> TRUE, v |-> [first |-> <<>>, second |-> <<>>]]

MIdle ==
    /\ m_stream = <<>>
    /\ m_closed = TRUE
    /\ m_result = [some |-> TRUE, v |-> [chunker |-> [status |-> "idle"], main |-> [status |-> "idle"]]]

\* the transport on a loopback stream
InitFrame == FInit /\ EIdle /\ SIdle /\ PIdle /\ NIdle /\ QIdle /\ MIdle

NextFrame ==
    \/ (\E m \in SendValues : Send(m)) /\ UNCHANGED <<evars, svars, pvars, nvars, qvars, mvars>>
    \/ (\E f \in ChildFrames : ChildWrite(f))
           /\ UNCHANGED <<evars, svars, pvars, nvars, qvars, mvars>>
    \/ Close /\ UNCHANGED <<evars, svars, pvars, nvars, qvars, mvars>>
    \/ Receive /\ UNCHANGED <<evars, svars, pvars, nvars, qvars, mvars>>

SpecFrame == InitFrame /\ [][NextFrame]_vars

\* the extractor on bounded symbol forests
InitExtract == EInit /\ FIdle /\ SIdle /\ PIdle /\ NIdle /\ QIdle /\ MIdle

NextExtract ==
    \/ (\E p \in Paths(e_symbols) \cup {<<>>}, l \in SymbolLabels :
            AddSymbol(p, l)) /\ UNCHANGED <<fvars, svars, pvars, nvars, qvars, mvars>>
    \/ Extract /\ UNCHANGED <<fvars, svars, pvars, nvars, qvars, mvars>>

SpecExtract == InitExtract /\ [][NextExtract]_vars

\* persistence on bounded chunk sequences
InitPersist == PInit /\ FIdle /\ EIdle /\ SIdle /\ NIdle /\ QIdle /\ MIdle

NextPersist ==
    \/ (\E source \in PersistSources : PBegin(source))
           /\ UNCHANGED <<fvars, evars, svars, nvars, qvars, mvars>>
    \/ (\E l \in ChunkLabels : PAddChunk(l))
           /\ UNCHANGED <<fvars, evars, svars, nvars, qvars, mvars>>
    \/ (\E n \in 0..(5 + 2 * MaxChunks) : PWrite(n))
           /\ UNCHANGED <<fvars, evars, svars, nvars, qvars, mvars>>

SpecPersist == InitPersist /\ [][NextPersist]_vars

\* the session against the child
Init == SInit /\ FIdle /\ EIdle /\ PIdle /\ NIdle /\ QIdle /\ MIdle

Next ==
    \/ SendInitialize /\ UNCHANGED <<fvars, evars, pvars, nvars, qvars, mvars>>
    \/ SendDidOpen /\ UNCHANGED <<fvars, evars, pvars, nvars, qvars, mvars>>
    \/ SendDocumentSymbol /\ UNCHANGED <<fvars, evars, pvars, nvars, qvars, mvars>>
    \/ ReadDocumentSymbols /\ UNCHANGED <<fvars, evars, pvars, nvars, qvars, mvars>>
    \/ WriteChunks /\ UNCHANGED <<fvars, evars, pvars, nvars, qvars, mvars>>
    \/ SendShutdown /\ UNCHANGED <<fvars, evars, pvars, nvars, qvars, mvars>>
    \/ SendExit /\ UNCHANGED <<fvars, evars, pvars, nvars, qvars, mvars>>
    \/ (\E f \in FrameIds : ChildEmit(f)) /\ UNCHANGED <<fvars, evars, pvars, nvars, qvars, mvars>>
    \/ (\E how \in {"eof", "ioerr"} : ChildStop(how))
           /\ UNCHANGED <<fvars, evars, pvars, nvars, qvars, mvars>>

Spec == Init /\ [][Next]_vars

\* the session with a log file in each of its conditions
InitLog ==
    /\ SLogInit
    /\ FIdle /\ EIdle /\ PIdle /\ NIdle /\ QIdle /\ MIdle

NextLog ==
    \/ SendInitialize /\ UNCHANGED <<fvars, evars, pvars, nvars, qvars, mvars>>
    \/ SendDidOpen /\ UNCHANGED <<fvars, evars, pvars, nvars, qvars, mvars>>
    \/ SendDocumentSymbol /\ UNCHANGED <<fvars, evars, pvars, nvars, qvars, mvars>>
    \/ ReadDocumentSymbols /\ UNCHANGED <<fvars, evars, pvars, nvars, qvars, mvars>>
    \/ WriteChunks /\ UNCHANGED <<fvars, evars, pvars, nvars, qvars, mvars>>
    \/ SendShutdown /\ UNCHANGED <<fvars, evars, pvars, nvars, qvars, mvars>>
    \/ SendExit /\ UNCHANGED <<fvars, evars, pvars, nvars, qvars, mvars>>
    \/ (\E f \in LogFrames : ChildEmit(f)) /\ UNCHANGED <<fvars, evars, pvars, nvars, qvars, mvars>>
    \/ (\E how \in {"eof", "ioerr"} : ChildStop(how))
           /\ UNCHANGED <<fvars, evars, pvars, nvars, qvars, mvars>>
    \/ (\E how \in {"noopen", "failwrite"} : LogBreaks(how))
           /\ UNCHANGED <<fvars, evars, pvars, nvars, qvars, mvars>>

SpecLog == InitLog /\ [][NextLog]_vars

\* the session with a child that answers each request at most once
NextAnswer ==
    \/ SendInitialize /\ UNCHANGED <<fvars, evars, pvars, nvars, qvars, mvars>>
    \/ SendDidOpen /\ UNCHANGED <<fvars, evars, pvars, nvars, qvars, mvars>>
    \/ SendDocumentSymbol /\ UNCHANGED <<fvars, evars, pvars, nvars, qvars, mvars>>
    \/ ReadDocumentSymbols /\ UNCHANGED <<fvars, evars, pvars, nvars, qvars, mvars>>
    \/ WriteChunks /\ UNCHANGED <<fvars, evars, pvars, nvars, qvars, mvars>>
    \/ SendShutdown /\ UNCHANGED <<fvars, evars, pvars, nvars, qvars, mvars>>
    \/ SendExit /\ UNCHANGED <<fvars, evars, pvars, nvars, qvars, mvars>>
    \/ (\E n \in 1..(2 * MaxFiles + 3), f \in ResponseFrames : ChildAnswer(n, f))
           /\ UNCHANGED <<fvars, evars, pvars, nvars, qvars, mvars>>
    \/ (\E f \in FrameIds \ ResponseFrames : ChildOther(f))
           /\ UNCHANGED <<fvars, evars, pvars, nvars, qvars, mvars>>
    \/ (\E how \in {"eof", "ioerr"} : ChildStop(how))
           /\ UNCHANGED <<fvars, evars, pvars, nvars, qvars, mvars>>

InitAnswer == SAnswerInit /\ FIdle /\ EIdle /\ PIdle /\ NIdle /\ QIdle /\ MIdle

SpecAnswer == InitAnswer /\ [][NextAnswer]_vars

\* the session with a child that delivers the symbols of every file, writes
\* at most MaxOther other messages and keeps its output open; the session
\* is a sequential program that takes its next step whenever it is not
\* blocked in a read, and the child answers every documentSymbol request
SessionStep ==
    /\ \/ SendInitialize
       \/ SendDidOpen
       \/ SendDocumentSymbol
       \/ ReadDocumentSymbols
       \/ WriteChunks
       \/ SendShutdown
       \/ SendExit
    /\ UNCHANGED <<fvars, evars, pvars, nvars, qvars, mvars>>

ChildDelivers ==
    /\ \E n \in 1..(2 * MaxFiles + 3), f \in GoodResults : ChildDeliver(n, f)
    /\ UNCHANGED <<fvars, evars, pvars, nvars, qvars, mvars>>

NextLive ==
    \/ SendInitialize /\ UNCHANGED <<fvars, evars, pvars, nvars, qvars, mvars>>
    \/ SendDidOpen /\ UNCHANGED <<fvars, evars, pvars, nvars, qvars, mvars>>
    \/ SendDocumentSymbol /\ UNCHANGED <<fvars, evars, pvars, nvars, qvars, mvars>>
    \/ ReadDocumentSymbols /\ UNCHANGED <<fvars, evars, pvars, nvars, qvars, mvars>>
    \/ WriteChunks /\ UNCHANGED <<fvars, evars, pvars, nvars, qvars, mvars>>
    \/ SendShutdown /\ UNCHANGED <<fvars, evars, pvars, nvars, qvars, mvars>>
    \/ SendExit /\ UNCHANGED <<fvars, evars, pvars, nvars, qvars, mvars>>
    \/ (\E n \in 1..(2 * MaxFiles + 3), f \in GoodResults : ChildDeliver(n, f))
           /\ UNCHANGED <<fvars, evars, pvars, nvars, qvars, mvars>>
    \/ (\E f \in WellFramed : ChildOther(f))
           /\ UNCHANGED <<fvars, evars, pvars, nvars, qvars, mvars>>

SpecLive ==
    /\ InitAnswer
    /\ [][NextLive]_vars
    /\ WF_vars(SessionStep)
    /\ WF_vars(ChildDelivers)

\* the session and a child that writes at any time, over pipes of finite
\* capacity
InitPipes == SPipesInit /\ FIdle /\ EIdle /\ PIdle /\ NIdle /\ QIdle /\ MIdle

NextPipes ==
    \/ SendInitialize /\ UNCHANGED <<fvars, evars, pvars, nvars, qvars, mvars>>
    \/ SendDidOpen /\ UNCHANGED <<fvars, evars, pvars, nvars, qvars, mvars>>
    \/ SendDocumentSymbol /\ UNCHANGED <<fvars, evars, pvars, nvars, qvars, mvars>>
    \/ ReadDocumentSymbols /\ UNCHANGED <<fvars, evars, pvars, nvars, qvars, mvars>>
    \/ WriteChunks /\ UNCHANGED <<fvars, evars, pvars, nvars, qvars, mvars>>
    \/ SendShutdown /\ UNCHANGED <<fvars, evars, pvars, nvars, qvars, mvars>>
    \/ SendExit /\ UNCHANGED <<fvars, evars, pvars, nvars, qvars, mvars>>
    \/ ChildTake /\ UNCHANGED <<fvars, evars, pvars, nvars, qvars, mvars>>
    \/ (\E f \in FrameIds : ChildWant(f))
           /\ UNCHANGED <<fvars, evars, pvars, nvars, qvars, mvars>>
    \/ ChildFinish /\ UNCHANGED <<fvars, evars, pvars, nvars, qvars, mvars>>

SpecPipes == InitPipes /\ [][NextPipes]_vars

\* the two per-file queries on the output of a child
InitQuery == MInit /\ FIdle /\ EIdle /\ SIdle /\ PIdle /\ NIdle /\ QIdle

NextQuery ==
    \/ (\E f \in FrameIds : MWrite(f))
           /\ UNCHANGED <<fvars, evars, svars, pvars, nvars, qvars>>
    \/ MClose /\ UNCHANGED <<fvars, evars, svars, pvars, nvars, qvars>>
    \/ MQuery /\ UNCHANGED <<fvars, evars, svars, pvars, nvars, qvars>>

SpecQuery == InitQuery /\ [][NextQuery]_vars

\* sanitize_name on bounded names
InitSanitize == NInit /\ FIdle /\ EIdle /\ SIdle /\ PIdle /\ QIdle /\ MIdle

NextSanitize ==
    \/ (\E piece \in NamePieces : NamePush(piece))
           /\ UNCHANGED <<fvars, evars, svars, pvars, qvars, mvars>>
    \/ Sanitize /\ UNCHANGED <<fvars, evars, svars, pvars, qvars, mvars>>

SpecSanitize == InitSanitize /\ [][NextSanitize]_vars

\* the file names of two chunks of one file
InitOrder == QInit /\ FIdle /\ EIdle /\ SIdle /\ PIdle /\ NIdle /\ MIdle

NextOrder ==
    \/ (\E i, j \in Positions, a, b \in ChunkLabels : QChoose(i, j, a, b))
           /\ UNCHANGED <<fvars, evars, svars, pvars, nvars, mvars>>
    \/ QName /\ UNCHANGED <<fvars, evars, svars, pvars, nvars, mvars>>

SpecOrder == InitOrder /\ [][NextOrder]_vars

====
